---- MODULE Spec2Model ----
(***************************************************************************)
(* A model of the smart-relayer Redis front end:                           *)
(*   - the RESP parser (Parser.read / Conn.parse), on byte sequences;      *)
(*   - the per-connection dispatch loop (Server.serveClient) with its      *)
(*     sync and smart modes, the request intake channel of the pooled      *)
(*     backend client and the per-connection response channel;             *)
(*   - Server.Reload;                                                      *)
(*   - the batching backends (filesystem, stream, queue): their            *)
(*     connection handlers, intake channel, workers and Exit;              *)
(*   - the worker of the queue backend (Client.listen) with its batch.     *)
(* A byte is a one-character string; a byte sequence is a sequence of      *)
(* such strings.                                                           *)
(***************************************************************************)
EXTENDS Integers, Sequences, FiniteSets, TLC

VARIABLES
    \* ---- the server and its dispatch loops ----
    config,       \* srv.config: [Url, Mode]
    mode,         \* srv.mode: modeSync or modeSmart
    poolGen,      \* which pool object srv.pool is (0 is the one made by New)
    requestChan,  \* the intake channel of the pooled client of each pool
    chanClosed,   \* whether that intake channel has been closed
    pc,           \* where each connection's serveClient goroutine stands
    inbuf,        \* bytes received from the client and not yet read
    database,     \* parser.database of each connection
    req,          \* the Request being handled by each connection
    client,       \* the pool whose client the connection leased
    leased,       \* whether the connection holds a pooled client
    responseCh,   \* the connection's response channel (capacity 1)
    respClosed,   \* whether the response channel has been closed
    netClosed,    \* whether netConn has been closed
    written,      \* the replies written to the client, in order
    parsed,       \* the requests parsed on the connection, in order
    reloads,      \* how many times Reload has run
    metFull,      \* connections whose fast-ack request met a full intake
    workload,     \* which requests the clients of this run send
    \* ---- the parser on its own ----
    pIn,          \* the bytes handed to the parser
    pCmd,         \* parseCommand
    pOut,         \* the parser's result, or NoResult
    \* ---- a batching backend (fs, stream or sqs server) ----
    bKind,        \* which server this is: "fs", "stream", "sqs" ("none": idle)
    bSync,        \* srv.config.Mode == "sync"
    exiting,      \* srv.exiting
    listening,    \* the listener is open
    C,            \* the intake channel (ss.C, srv.C, srv.recordsCh)
    closedC,      \* whether the intake channel has been closed
    hpc,          \* where each connection's handleConnection stands
    hreq,         \* the request each handler is working on
    hlog,         \* per connection: the requests received, with the replies
    crashed,      \* "no", or the panic nobody recovered that ended the process
    exitPc,       \* where Exit stands
    workerUp,     \* the workers (writers, clients) are still running
    held,         \* messages in the batch of the sqs client, not yet sent
    stored,       \* messages the workers have written or sent
    doneCount,    \* how many times done has been signalled
    lostAtDone,   \* messages accepted and not stored when done was signalled
    \* ---- the worker of the queue backend ----
    qMax,         \* srv.config.MaxRecords
    recordsCh,    \* srv.recordsCh
    syncRecordCh, \* srv.syncRecordCh
    batch,        \* clt.batch: the sizes of the entries
    acks,         \* per sync submitter: the acknowledgements received
    taken,        \* sync submitters whose payload the worker has received
    flushes,      \* history: [n, max] of every batch handed to the transport
    qSent,        \* how many payloads have been submitted
    qReloads,     \* how many times Reload has run
    qPc,          \* where the client's listen goroutine stands
    qExit,        \* where Client.Exit stands
    qTimer,       \* clt.timer: "armed" or "stopped"
    \* ---- a connection of the queue server with MULTI / EXEC ----
    multi,        \* handleConnection: multi
    row,          \* handleConnection: the record row points to, or Nil
    txLog,        \* history: every command read, and what came of it
    nextRec,      \* the next record that &lib.InterRecord{} creates
    txPc,         \* where the handler stands: "read", "send" or "crashed"
    txCh,         \* srv.recordsCh: the records sent and not yet taken
    txBatch,      \* clt.batch: the records of the entries
    txHanded,     \* history: every batch handed to the transport
    txCmds,       \* how many commands the connection has sent
    \* ---- the worker fanout of a streaming backend and its controller ----
    kMaxWorkers,  \* srv.cfg.MaxWorkers
    cliDesired,   \* srv.cliDesired
    kLen,         \* len(srv.C)
    mMax,         \* Max of the configuration the controller works with
    mPending,     \* configurations handed to "go srv.monad.Reload"
    kNow,         \* the time, in intervals of the controller
    kChanges,     \* history: the times at which cliDesired changed
    kReloads,     \* how many times Reload has run
    \* ---- the filesystem backend: shards, paths and GET ----
    fLoaded,      \* history: Shards of every configuration loaded
    fCfgShards,   \* srv.config.Shards
    fShards,      \* srv.shards
    fCompress,    \* srv.config.Compress
    fSess,        \* srv.s3sess != nil
    fPool,        \* the Msg objects of msgPool
    fCalls,       \* history: the calls of getShard, path and fullpath
    fGets,        \* history: the lookups and the reply of the last GET
    fCrashed,     \* a panic in handleConnection ended the process
    fOps,         \* how many operations have run
    \* ---- the writers a server keeps in a channel, and Reload ----
    wKind,        \* "stream" (srv.writers) or "shard" (s.w)
    wCfg,         \* the configured number of writers
    wLen,         \* len of the channel that holds the writers
    wPc,          \* where Reload stands: "idle", "grow" or "shrink"
    wI,           \* the loop variable i of Reload
    wTo,          \* the bound of the loop of Reload
    wSpawned,     \* history: how many writers newWriter has made
    wStopped,     \* history: how many writers have been told to exit
    wReloads,     \* how many times Reload has been called
    \* ---- the connection limiter of the HTTP proxy ----
    hSem,         \* h.sem: the semaphore in use, or Nil
    hCap,         \* per semaphore: its capacity
    hTokens,      \* per semaphore: how many tokens it holds
    hMade,        \* how many semaphores MaxConns has made
    hMax,         \* the maxConns of the last call of MaxConns
    hReq,         \* per request: where ServeHTTP stands, and its sem
    hServed       \* how many requests have left ServeHTTP

vars == <<config, mode, poolGen, requestChan, chanClosed, pc, inbuf, database,
          req, client, leased, responseCh, respClosed, netClosed, written,
          parsed, reloads, metFull, workload, pIn, pCmd, pOut,
          bKind, bSync, exiting, listening, C, closedC, hpc, hreq, hlog,
          crashed, exitPc, workerUp, held, stored, doneCount, lostAtDone,
          qMax, recordsCh, syncRecordCh, batch, acks, taken, flushes, qSent,
          qReloads, qPc, qExit, qTimer,
          multi, row, txLog, nextRec, txPc, txCh, txBatch, txHanded, txCmds,
          kMaxWorkers, cliDesired, kLen, mMax, mPending, kNow, kChanges,
          kReloads,
          fLoaded, fCfgShards, fShards, fCompress, fSess, fPool, fCalls, fGets,
          fCrashed, fOps,
          wKind, wCfg, wLen, wPc, wI, wTo, wSpawned, wStopped, wReloads,
          hSem, hCap, hTokens, hMade, hMax, hReq, hServed>>

srvVars == <<config, mode, poolGen, requestChan, chanClosed, pc, inbuf,
             database, req, client, leased, responseCh, respClosed, netClosed,
             written, parsed, reloads, metFull, workload>>

parserVars == <<pIn, pCmd, pOut>>

batchVars == <<bKind, bSync, exiting, listening, C, closedC, hpc, hreq, hlog,
               crashed, exitPc, workerUp, held, stored, doneCount, lostAtDone>>

queueVars == <<qMax, recordsCh, syncRecordCh, batch, acks, taken, flushes,
               qSent, qReloads, qPc, qExit, qTimer>>

txVars == <<multi, row, txLog, nextRec, txPc, txCh, txBatch, txHanded,
            txCmds>>

scaleVars == <<kMaxWorkers, cliDesired, kLen, mMax, mPending, kNow, kChanges,
               kReloads>>

fsVars == <<fLoaded, fCfgShards, fShards, fCompress, fSess, fPool, fCalls,
            fGets, fCrashed, fOps>>

wrVars == <<wKind, wCfg, wLen, wPc, wI, wTo, wSpawned, wStopped, wReloads>>

httpVars == <<hSem, hCap, hTokens, hMade, hMax, hReq, hServed>>

moreVars == <<wrVars, httpVars>>

extVars == <<txVars, scaleVars, fsVars, moreVars>>

(***************************************************************************)
(* Bytes                                                                   *)
(***************************************************************************)
CR == "\r"
LF == "\n"
CRLF == <<CR, LF>>

Digits == <<"0", "1", "2", "3", "4", "5", "6", "7", "8", "9">>

IsDigit(ch) == \E i \in 1..10 : Digits[i] = ch

DigitVal(ch) == (CHOOSE i \in 1..10 : Digits[i] = ch) - 1

\* The decimal text of a small integer, as fmt.Sprintf("%d", n) writes it.
RECURSIVE Itoa(_)
Itoa(n) ==
    IF n < 0 THEN <<"-">> \o Itoa(0 - n)
    ELSE IF n < 10 THEN <<Digits[n + 1]>>
    ELSE Itoa(n \div 10) \o <<Digits[(n % 10) + 1]>>

RECURSIVE DigitsVal(_, _)
DigitsVal(s, acc) ==
    IF s = <<>> THEN acc ELSE DigitsVal(Tail(s), acc * 10 + DigitVal(Head(s)))

\* strconv.Atoi: an optional sign, then one or more decimal digits.
Atoi(s) ==
    LET signed == s # <<>> /\ Head(s) \in {"+", "-"}
        body   == IF signed THEN Tail(s) ELSE s
    IN  IF body = <<>> \/ \E i \in 1..Len(body) : ~IsDigit(body[i])
        THEN [ok |-> FALSE, n |-> 0]
        ELSE [ok |-> TRUE,
              n  |-> IF signed /\ Head(s) = "-"
                     THEN 0 - DigitsVal(body, 0) ELSE DigitsVal(body, 0)]

Lower == <<"a", "b", "c", "d", "e", "f", "g", "h", "i", "j", "k", "l", "m",
           "n", "o", "p", "q", "r", "s", "t", "u", "v", "w", "x", "y", "z">>
Upper == <<"A", "B", "C", "D", "E", "F", "G", "H", "I", "J", "K", "L", "M",
           "N", "O", "P", "Q", "R", "S", "T", "U", "V", "W", "X", "Y", "Z">>

UpperByte(ch) ==
    IF \E i \in 1..26 : Lower[i] = ch
    THEN Upper[CHOOSE i \in 1..26 : Lower[i] = ch] ELSE ch

\* bytes.ToUpper
ToUpper(s) == [i \in 1..Len(s) |-> UpperByte(s[i])]

IsSpace(ch) == ch \in {" ", "\t", LF, CR}

\* bytes.TrimSpace
RECURSIVE TrimLeft(_)
TrimLeft(s) == IF s # <<>> /\ IsSpace(Head(s)) THEN TrimLeft(Tail(s)) ELSE s

RECURSIVE TrimRight(_)
TrimRight(s) ==
    IF s # <<>> /\ IsSpace(s[Len(s)])
    THEN TrimRight(SubSeq(s, 1, Len(s) - 1)) ELSE s

TrimSpace(s) == TrimRight(TrimLeft(s))

\* bytes.Split(line, " ")[0]: the bytes before the first space.
FirstField(line) ==
    IF \E i \in 1..Len(line) : line[i] = " "
    THEN SubSeq(line, 1, (CHOOSE i \in 1..Len(line) :
                            /\ line[i] = " "
                            /\ \A j \in 1..(i - 1) : line[j] # " ") - 1)
    ELSE line

(***************************************************************************)
(* The framed reader: ReadLine and ReadN of the connection buffer.         *)
(* A read that finds too few bytes ends with an I/O error (the client      *)
(* closed, or the read deadline passed).                                   *)
(***************************************************************************)
ReadLine(s) ==
    IF \E i \in 1..Len(s) : s[i] = LF
    THEN LET i == CHOOSE k \in 1..Len(s) :
                    /\ s[k] = LF
                    /\ \A j \in 1..(k - 1) : s[j] # LF
         IN  [ok |-> TRUE, line |-> SubSeq(s, 1, i),
              rest |-> SubSeq(s, i + 1, Len(s))]
    ELSE [ok |-> FALSE, line |-> <<>>, rest |-> <<>>]

ReadN(s, n) ==
    IF Len(s) >= n
    THEN [ok |-> TRUE, b |-> SubSeq(s, 1, n), rest |-> SubSeq(s, n + 1, Len(s))]
    ELSE [ok |-> FALSE, b |-> <<>>, rest |-> <<>>]

(***************************************************************************)
(* Parser.read.  The result holds what the call returns and what it left   *)
(* behind:                                                                 *)
(*   st       "ok" (err == nil), "err" (err != nil) or "panic" (a slice    *)
(*            expression out of range);                                    *)
(*   command, buffer   the fields of the Request r;                        *)
(*   database          p.database;                                         *)
(*   rest              the bytes the reader has not consumed.              *)
(***************************************************************************)
selectCommand == <<"S", "E", "L", "E", "C", "T">>
quitCommand   == <<"Q", "U", "I", "T">>

Res(st, command, buffer, db, rest) ==
    [st |-> st, command |-> command, buffer |-> buffer, database |-> db,
     rest |-> rest]

\* Variant of ReadBulk that reads a body of n + 2 bytes whenever n is not 0.
ReadBulk_ReadsNull(line, rest, command, buffer, db, parseCommand) ==
    IF Len(line) < 3 THEN Res("panic", command, buffer, db, rest)
    ELSE
    LET a == Atoi(SubSeq(line, 2, Len(line) - 2)) IN
    IF ~a.ok THEN Res("err", command, buffer, db, rest)
    ELSE IF a.n = 0 THEN Res("ok", command, buffer \o line, db, rest)
    ELSE
    LET rd == ReadN(rest, a.n + 2) IN
        IF ~rd.ok \/ Len(rd.b) < 2
        THEN Res("err", command, buffer \o line, db, rd.rest)
        ELSE Res("ok", command, buffer \o line \o rd.b, db, rd.rest)

\* case '$' of Parser.read, after the header line has been read
ReadBulk(line, rest, command, buffer, db, parseCommand) ==
    IF Len(line) < 3 THEN Res("panic", command, buffer, db, rest)
    ELSE
    LET a == Atoi(SubSeq(line, 2, Len(line) - 2)) IN
    IF ~a.ok THEN Res("err", command, buffer, db, rest)
    ELSE IF a.n <= 0 THEN Res("ok", command, buffer \o line, db, rest)
    ELSE
    LET rd == ReadN(rest, a.n + 2)
        b  == rd.b
        payload == SubSeq(b, 1, Len(b) - 2)
    IN  IF ~rd.ok THEN Res("err", command, buffer \o line, db, rd.rest)
        ELSE IF b[Len(b) - 1] # CR \/ b[Len(b)] # LF
        THEN Res("err", command, buffer \o line, db, rd.rest)
        ELSE IF ~parseCommand
        THEN Res("ok", command, buffer \o line \o b, db, rd.rest)
        ELSE IF Len(command) = 0
        THEN Res("ok", ToUpper(payload), buffer \o line \o b, db, rd.rest)
        ELSE IF command = selectCommand /\ Atoi(payload).ok
        THEN Res("ok", command, buffer \o line \o b, Atoi(payload).n, rd.rest)
        ELSE Res("ok", command, buffer \o line \o b, db, rd.rest)

\* default case of Parser.read: an inline request
ReadInline(line, rest, command, buffer, db) ==
    Res("ok", ToUpper(TrimSpace(FirstField(line))), buffer \o line, db, rest)

RECURSIVE ParserRead(_, _, _, _, _)
RECURSIVE ReadItems(_, _, _, _, _, _)

\* the loop "for i := 0; i < n; i++" of case '*'
ReadItems(n, s, command, buffer, db, parseCommand) ==
    IF n = 0 THEN Res("ok", command, buffer, db, s)
    ELSE LET one == ParserRead(s, command, buffer, db, parseCommand) IN
         IF one.st # "ok" THEN one
         ELSE ReadItems(n - 1, one.rest, one.command, one.buffer,
                        one.database, parseCommand)

\* case '*' of Parser.read, after the header line has been read
ReadArray(line, rest, command, buffer, db, parseCommand) ==
    IF Len(line) < 3 THEN Res("panic", command, buffer, db, rest)
    ELSE
    LET a == Atoi(SubSeq(line, 2, Len(line) - 2)) IN
    IF ~a.ok THEN Res("err", command, buffer, db, rest)
    ELSE IF a.n < 0 THEN Res("ok", command, buffer, db, rest)
    ELSE ReadItems(a.n, rest, command, buffer \o line, db, parseCommand)

ParserRead(s, command, buffer, db, parseCommand) ==
    LET rl == ReadLine(s) IN
    IF ~rl.ok THEN Res("err", command, buffer, db, rl.rest)
    ELSE IF rl.line[1] \in {"+", "-", ":"}
    THEN Res("ok", command, buffer \o rl.line, db, rl.rest)
    ELSE IF rl.line[1] = "$"
    THEN ReadBulk(rl.line, rl.rest, command, buffer, db, parseCommand)
    ELSE IF rl.line[1] = "*"
    THEN ReadArray(rl.line, rl.rest, command, buffer, db, parseCommand)
    ELSE ReadInline(rl.line, rl.rest, command, buffer, db)

(***************************************************************************)
(* RESP frames, as a client writes them                                    *)
(***************************************************************************)
RECURSIVE Concat(_)
Concat(ss) == IF ss = <<>> THEN <<>> ELSE Head(ss) \o Concat(Tail(ss))

BulkOf(p) == <<"$">> \o Itoa(Len(p)) \o CRLF \o p \o CRLF

NullBulk == <<"$", "-", "1">> \o CRLF

ArrayOf(items) == <<"*">> \o Itoa(Len(items)) \o CRLF \o Concat(items)

\* a request in multibulk form: an array of bulk strings
Multibulk(args) == ArrayOf([i \in 1..Len(args) |-> BulkOf(args[i])])

\* a request in inline form: the arguments separated by spaces, then CRLF
RECURSIVE JoinSp(_)
JoinSp(args) ==
    IF Len(args) = 1 THEN args[1] ELSE args[1] \o <<" ">> \o JoinSp(Tail(args))

Inline(args) == JoinSp(args) \o CRLF

\* All sequences over S of length lo..hi
SeqsOf(S, lo, hi) == UNION {[1..n -> S] : n \in lo..hi}

MaxLen == 2       \* longest bulk payload of the parser's inputs
MaxItems == 2     \* most elements of an array of the parser's inputs

SimpleFrames ==
    {<<t>> \o x \o CRLF : t \in {"+", "-"},
                          x \in {<<>>, <<"O", "K">>, <<"E", "R", "R", " ", "x">>}}
    \cup {<<":">> \o Itoa(n) \o CRLF : n \in {-1, 0, 7, 12}}

BulkFrames == {BulkOf(p) : p \in SeqsOf({"a", LF}, 0, MaxLen)}

\* the elements arrays are built from
Elems == {<<"+", "O", "K">> \o CRLF, <<":", "1">> \o CRLF, NullBulk,
          BulkOf(<<>>), BulkOf(<<"g", "e", "t">>), BulkOf(<<"k">>)}

FlatArrays == {ArrayOf(s) : s \in SeqsOf(Elems, 0, MaxItems)}

InnerArrays == {ArrayOf(<<>>), ArrayOf(<<BulkOf(<<"k">>)>>),
                ArrayOf(<<NullBulk, <<":", "1">> \o CRLF>>)}

NestedArrays ==
    {ArrayOf(s) : s \in SeqsOf(InnerArrays \cup {BulkOf(<<"k">>)}, 1, MaxItems)}

\* the valid RESP frames the parser is tried on
ValidFrames ==
    SimpleFrames \cup BulkFrames \cup {NullBulk} \cup FlatArrays
    \cup NestedArrays

\* what may follow a frame on the wire
Tails == {<<>>, <<"+", "O", "K">> \o CRLF}

NoResult == [st |-> "none"]
NoInput == [frame |-> <<>>, tail |-> <<>>]

\* What a client may send that is no RESP frame.
MaxRaw == 4       \* longest raw input of the parser

RawBytes == {"$", "*", "1", CR, LF}

RawInputs == SeqsOf(RawBytes, 0, MaxRaw)

ParserInputs == {[frame |-> f, tail |-> t] : f \in ValidFrames, t \in Tails}

(***************************************************************************)
(* The server: constants, the fast-ack table, the client's requests        *)
(***************************************************************************)
modeSync == 0
modeSmart == 1

NumConns == 2     \* client connections
MaxReqs == 2      \* requests a client sends on one connection
ChanCap == 1      \* capacity of the intake channel (requestBufferSize)
MaxReloads == 1   \* calls of Reload after New

Conns == 1..NumConns
Gens == 0..MaxReloads
Nil == 0          \* a nil channel

protoOK   == <<"+", "O", "K">> \o CRLF
protoTrue == <<":", "1">> \o CRLF
protoPong == <<"+", "P", "O", "N", "G">> \o CRLF
protoKO   == <<"-", "E", "r", "r", "o", "r">> \o CRLF

cPING == <<"P", "I", "N", "G">>
cSET == <<"S", "E", "T">>
cSETEX == <<"S", "E", "T", "E", "X">>
cPSETEX == <<"P", "S", "E", "T", "E", "X">>
cMSET == <<"M", "S", "E", "T">>
cHMSET == <<"H", "M", "S", "E", "T">>
cDEL == <<"D", "E", "L">>
cHSET == <<"H", "S", "E", "T">>
cHDEL == <<"H", "D", "E", "L">>
cEXPIRE == <<"E", "X", "P", "I", "R", "E">>
cEXPIREAT == <<"E", "X", "P", "I", "R", "E", "A", "T">>
cPEXPIRE == <<"P", "E", "X", "P", "I", "R", "E">>
cPEXPIREAT == <<"P", "E", "X", "P", "I", "R", "E", "A", "T">>
cGET == <<"G", "E", "T">>
cINCR == <<"I", "N", "C", "R">>

\* the map "commands" filled by init()
commands ==
    (cPING :> protoPong) @@ (cSET :> protoOK) @@ (cSETEX :> protoOK)
    @@ (cPSETEX :> protoOK) @@ (cMSET :> protoOK) @@ (cHMSET :> protoOK)
    @@ (selectCommand :> protoOK)
    @@ (cDEL :> protoTrue) @@ (cHSET :> protoTrue) @@ (cHDEL :> protoTrue)
    @@ (cEXPIRE :> protoTrue) @@ (cEXPIREAT :> protoTrue)
    @@ (cPEXPIRE :> protoTrue) @@ (cPEXPIREAT :> protoTrue)

k1 == <<"k">>
v1 == <<"v">>

\* A request as the client means it (args) and as it writes it (bytes).
Frame(args, form) ==
    [args |-> args,
     form |-> form,
     bytes |-> IF form = "multibulk" THEN Multibulk(args) ELSE Inline(args)]

BadFrame ==
    [args |-> <<>>, form |-> "malformed",
     bytes |-> <<"*", "1">> \o CRLF \o <<"$", "3">> \o CRLF \o <<"a", "b">> \o CRLF]

\* The requests of the main runs: a fast-ack write, a read that needs the
\* backend, and QUIT.
CoreFrames ==
    {Frame(<<cSET, k1, v1>>, "multibulk"),
     Frame(<<cGET, k1>>, "multibulk"),
     Frame(<<quitCommand>>, "multibulk")}

\* SELECT in both request forms, and a read that carries the index.
SelectFrames ==
    {Frame(<<selectCommand, <<"1">>>>, "multibulk"),
     Frame(<<selectCommand, <<"2">>>>, "inline"),
     Frame(<<cGET, k1>>, "multibulk")}

\* One request of every command of the fast-ack table, in either form and
\* either case, and commands outside the table.
TableFrames ==
    {Frame(<<c, k1>>, f) : c \in DOMAIN commands \cup {cGET, cINCR},
                           f \in {"multibulk", "inline"}}
    \cup {BadFrame,
          Frame(<<<<"p", "i", "n", "g">>>>, "inline"),
          Frame(<<<<"s", "e", "t">>, k1, v1>>, "multibulk"),
          Frame(<<quitCommand>>, "inline")}

\* An array header with a negative count: *-1 CRLF.
NegArrayFrame ==
    [args |-> <<>>, form |-> "negarray", bytes |-> <<"*", "-", "1">> \o CRLF]

\* The requests of the main runs and the negative array header.
EdgeFrames == CoreFrames \cup {NegArrayFrame}

\* Requests that make parser.read return an error: a bulk body cut short,
\* a bulk body without its CRLF, a bulk length and an array count that are
\* no numbers, and a malformed element inside an array.
ErrFrames ==
    {BadFrame,
     [args |-> <<>>, form |-> "malformed",
      bytes |-> <<"$", "1">> \o CRLF \o <<"k", "a", "b">>],
     [args |-> <<>>, form |-> "malformed", bytes |-> <<"$", "x">> \o CRLF],
     [args |-> <<>>, form |-> "malformed", bytes |-> <<"*", "x">> \o CRLF],
     [args |-> <<>>, form |-> "malformed",
      bytes |-> <<"*", "1">> \o CRLF \o <<"$", "x">> \o CRLF]}

\* The requests the clients of a run choose from.
FramesOf(w) ==
    CASE w = "core" -> CoreFrames
      [] w = "select" -> SelectFrames
      [] w = "table" -> TableFrames
      [] w = "edge" -> EdgeFrames
      [] w = "errors" -> CoreFrames \cup ErrFrames

Configs == [Url : {"a", "b"}, Mode : {"sync", "smart"}]

NoReq == [id |-> <<0, 0>>, command |-> <<>>, buffer |-> <<>>,
          responseChannel |-> Nil, database |-> 0]

EOFInput == [args |-> <<>>, form |-> "eof", bytes |-> <<>>]

\* Variant of HasRoom: a channel that takes any number of requests.
HasRoom_Unbounded(g) == TRUE

(***************************************************************************)
(* Channels                                                                *)
(***************************************************************************)
\* "c <- r" on the intake channel can proceed: there is room.
HasRoom(g) == Len(requestChan[g]) < ChanCap

\* History: the connections whose pending fast-ack request stood before a
\* full intake channel.  Every action of the server ends with it.
NoteFull ==
    metFull' = metFull \cup
        {c \in Conns : /\ pc'[c] = "fastSend"
                       /\ ~chanClosed'[client'[c]]
                       /\ Len(requestChan'[client'[c]]) >= ChanCap}

(***************************************************************************)
(* The pool of backend clients.  Every pool has one client, which the      *)
(* connections share; a pool that is reset closes the intake channel of    *)
(* its client.                                                             *)
(***************************************************************************)
\* pool.get(): a lease on the client of the current pool
poolGet(c) ==
    /\ client' = [client EXCEPT ![c] = poolGen]
    /\ leased' = [leased EXCEPT ![c] = TRUE]

\* pool.close(pooled): the lease is given back
poolClose(c) == leased' = [leased EXCEPT ![c] = FALSE]

\* pool.reset(c)
poolReset(g) == chanClosed' = [chanClosed EXCEPT ![g] = TRUE]

(***************************************************************************)
(* Server.serveClient                                                      *)
(***************************************************************************)
\* The deferred calls, run at every return: close(responseCh),
\* srv.pool.close(pooled), netConn.Close().
\* Variant of Finish that does not give the pooled client back.
Finish_KeepsLease(c) ==
    /\ pc' = [pc EXCEPT ![c] = "closed"]
    /\ respClosed' = [respClosed EXCEPT ![c] = TRUE]
    /\ responseCh' = [responseCh EXCEPT ![c] = <<>>]
    /\ UNCHANGED leased
    /\ netClosed' = [netClosed EXCEPT ![c] = TRUE]

Finish(c) ==
    /\ pc' = [pc EXCEPT ![c] = "closed"]
    /\ respClosed' = [respClosed EXCEPT ![c] = TRUE]
    /\ responseCh' = [responseCh EXCEPT ![c] = <<>>]
    /\ poolClose(c)
    /\ netClosed' = [netClosed EXCEPT ![c] = TRUE]

\* A reply the relayer makes itself, and conn.Write of a reply.
Local(b) == [from |-> "relayer", bytes |-> b]

Write(c, reply) == written' = [written EXCEPT ![c] = Append(@, reply)]

\* The connection is accepted and srv.pool.get() hands out the client of the
\* current pool.
Accept(c) ==
    /\ pc[c] = "idle"
    /\ pc' = [pc EXCEPT ![c] = "read"]
    /\ poolGet(c)
    /\ UNCHANGED <<config, mode, poolGen, requestChan, chanClosed, inbuf,
                   database, req, responseCh, respClosed, netClosed, written,
                   parsed, reloads, workload, parserVars,
                   batchVars, queueVars, extVars>>
    /\ NoteFull

\* srv.pool.get() reports that no client is available: serveClient returns.
AcceptNoClient(c) ==
    /\ pc[c] = "idle"
    /\ pc' = [pc EXCEPT ![c] = "closed"]
    /\ netClosed' = [netClosed EXCEPT ![c] = TRUE]
    /\ UNCHANGED <<config, mode, poolGen, requestChan, chanClosed, inbuf,
                   database, req, client, leased, responseCh, respClosed,
                   written, parsed, reloads, workload, parserVars,
                   batchVars, queueVars, extVars>>
    /\ NoteFull

\* The database index a request asks for when the client means it as
\* SELECT n, and -1 for every other request.
SelectTarget(args) ==
    IF Len(args) = 2 /\ ToUpper(args[1]) = selectCommand /\ Atoi(args[2]).ok
    THEN Atoi(args[2]).n ELSE -1

\* History: what the client sent (its form, the index it selects), what the
\* parser made of it (command, database) and srv.mode at that moment.
Parsed(id, f, res) ==
    [id |-> id, form |-> f.form, sel |-> SelectTarget(f.args),
     command |-> res.command, database |-> res.database, mode |-> mode]

\* Variant of IsQuit that compares with closeConnectionCommand instead.
IsQuit_Close(command) == command = <<"C", "L", "O", "S", "E">>

\* bytes.Compare(req.command, quitCommand) == 0
IsQuit(command) == command = quitCommand

\* Variant of IsFast that looks the command up without testing the mode.
IsFast_AnyMode(command) == command \in DOMAIN commands

\* Is the request answered at once (smart mode, command in the table)?
IsFast(command) == mode = modeSmart /\ command \in DOMAIN commands

\* The top of the loop: parser.read, the QUIT test, req.database, and the
\* choice between the fast-ack path and the synchronized path.
ReadRequest(c) ==
    /\ pc[c] = "read"
    /\ \E f \in FramesOf(workload) \cup {EOFInput} :
         /\ f = EOFInput \/ Len(parsed[c]) < MaxReqs
         /\ LET res == ParserRead(inbuf[c] \o f.bytes, <<>>, <<>>,
                                  database[c], TRUE)
                id  == <<c, Len(parsed[c]) + 1>>
            IN  /\ inbuf' = [inbuf EXCEPT ![c] = res.rest]
                /\ database' = [database EXCEPT ![c] = res.database]
                /\ CASE res.st = "panic" ->
                          \* nothing recovers it: the process dies
                          /\ pc' = [d \in Conns |-> "crashed"]
                          /\ UNCHANGED <<req, written, parsed, responseCh,
                                         respClosed, leased, netClosed>>
                     [] res.st = "err" ->
                          /\ Finish(c)
                          /\ UNCHANGED <<req, written, parsed>>
                     [] res.st = "ok" /\ IsQuit(res.command) ->
                          /\ Write(c, Local(protoOK))
                          /\ parsed' = [parsed EXCEPT ![c] =
                                          Append(@, Parsed(id, f, res))]
                          /\ Finish(c)
                          /\ UNCHANGED req
                     [] OTHER ->
                          /\ parsed' = [parsed EXCEPT ![c] =
                                Append(@, Parsed(id, f, res))]
                          /\ req' = [req EXCEPT ![c] =
                                [id |-> id, command |-> res.command,
                                 buffer |-> res.buffer,
                                 responseChannel |->
                                    IF IsFast(res.command) THEN Nil ELSE c,
                                 database |-> res.database]]
                          /\ pc' = [pc EXCEPT ![c] =
                                IF IsFast(res.command) THEN "fastSend"
                                ELSE "syncSend"]
                          /\ UNCHANGED <<written, responseCh, respClosed,
                                         leased, netClosed>>
    /\ UNCHANGED <<config, mode, poolGen, requestChan, chanClosed, client,
                   reloads, workload, parserVars,
                   batchVars, queueVars, extVars>>
    /\ NoteFull

\* Smart mode: ok = sendRequest(client.requestChan, &req).  The send waits
\* for room; on a closed channel it panics, sendRequest recovers and the
\* loop returns.  (The channel of a leased client is never nil.)
FastSend(c) ==
    /\ pc[c] = "fastSend"
    /\ \/ /\ ~chanClosed[client[c]]
          /\ HasRoom(client[c])
          /\ requestChan' = [requestChan EXCEPT ![client[c]] = Append(@, req[c])]
          /\ pc' = [pc EXCEPT ![c] = "fastWrite"]
          /\ UNCHANGED <<responseCh, respClosed, leased, netClosed>>
       \/ /\ chanClosed[client[c]]
          /\ Finish(c)
          /\ UNCHANGED requestChan
    /\ UNCHANGED <<config, mode, poolGen, chanClosed, inbuf, database, req,
                   client, written, parsed, reloads, workload, parserVars,
                   batchVars, queueVars, extVars>>
    /\ NoteFull

\* Smart mode: conn.Write(fastResponse); continue
FastWrite(c) ==
    /\ pc[c] = "fastWrite"
    /\ Write(c, Local(commands[req[c].command]))
    /\ pc' = [pc EXCEPT ![c] = "read"]
    /\ UNCHANGED <<config, mode, poolGen, requestChan, chanClosed, inbuf,
                   database, req, client, leased, responseCh, respClosed,
                   netClosed, parsed, reloads, workload, parserVars,
                   batchVars, queueVars, extVars>>
    /\ NoteFull

\* Synchronized mode: ok := sendRequest(client.requestChan, &req); when the
\* send fails the loop writes protoKO and returns.
SyncSend(c) ==
    /\ pc[c] = "syncSend"
    /\ \/ /\ ~chanClosed[client[c]]
          /\ HasRoom(client[c])
          /\ requestChan' = [requestChan EXCEPT ![client[c]] = Append(@, req[c])]
          /\ pc' = [pc EXCEPT ![c] = "wait"]
          /\ UNCHANGED <<written, responseCh, respClosed, leased, netClosed>>
       \/ /\ chanClosed[client[c]]
          /\ Write(c, Local(protoKO))
          /\ Finish(c)
          /\ UNCHANGED requestChan
    /\ UNCHANGED <<config, mode, poolGen, chanClosed, inbuf, database, req,
                   client, parsed, reloads, workload, parserVars,
                   batchVars, queueVars, extVars>>
    /\ NoteFull

\* case response, more := <-responseCh: conn.Write(response).  Only the
\* loop's own deferred close ever closes responseCh, so "more" is true.
RecvResponse(c) ==
    /\ pc[c] = "wait"
    /\ responseCh[c] # <<>>
    /\ Write(c, Head(responseCh[c]))
    /\ responseCh' = [responseCh EXCEPT ![c] = Tail(@)]
    /\ pc' = [pc EXCEPT ![c] = "read"]
    /\ UNCHANGED <<config, mode, poolGen, requestChan, chanClosed, inbuf,
                   database, req, client, leased, respClosed, netClosed,
                   parsed, reloads, workload, parserVars,
                   batchVars, queueVars, extVars>>
    /\ NoteFull

\* Variant of Timeout: after the timeout the loop goes on with the next
\* request instead of returning.
Timeout_Continue(c) ==
    /\ pc[c] = "wait"
    /\ Write(c, Local(protoKO))
    /\ pc' = [pc EXCEPT ![c] = "read"]
    /\ UNCHANGED <<config, mode, poolGen, requestChan, chanClosed, inbuf,
                   database, req, client, leased, responseCh, respClosed,
                   netClosed, parsed, reloads, workload, parserVars,
                   batchVars, queueVars, extVars>>
    /\ NoteFull

\* Variant of Timeout: the loop waits for the response without a timer.
Timeout_Never(c) ==
    /\ pc[c] = "wait"
    /\ FALSE
    /\ UNCHANGED vars

\* case <-time.After(responseTimeout): conn.Write(protoKO); return
Timeout(c) ==
    /\ pc[c] = "wait"
    /\ Write(c, Local(protoKO))
    /\ Finish(c)
    /\ UNCHANGED <<config, mode, poolGen, requestChan, chanClosed, inbuf,
                   database, req, client, parsed, reloads, workload, parserVars,
                   batchVars, queueVars, extVars>>
    /\ NoteFull

(***************************************************************************)
(* The pooled backend client.  It takes the requests of its intake channel *)
(* in order and delivers the backend's response to the response channel a  *)
(* request carries, with sendAsyncResponse: without waiting, and without   *)
(* effect on a closed or full channel.                                     *)
(***************************************************************************)
Response(r) == [from |-> "backend", responseTo |-> r.id]

sendAsyncResponse(ch, b) ==
    IF ch = Nil \/ respClosed[ch] \/ Len(responseCh[ch]) >= 1
    THEN UNCHANGED responseCh
    ELSE responseCh' = [responseCh EXCEPT ![ch] = Append(@, b)]

BackendServe(g) ==
    /\ requestChan[g] # <<>>
    /\ requestChan' = [requestChan EXCEPT ![g] = Tail(@)]
    /\ sendAsyncResponse(Head(requestChan[g]).responseChannel,
                         Response(Head(requestChan[g])))
    /\ UNCHANGED <<config, mode, poolGen, chanClosed, pc, inbuf, database,
                   req, client, leased, respClosed, netClosed, written,
                   parsed, reloads, workload, parserVars,
                   batchVars, queueVars, extVars>>
    /\ NoteFull

(***************************************************************************)
(* Server.Reload                                                           *)
(***************************************************************************)
ModeOf(cfg) == IF cfg.Mode = "smart" THEN modeSmart ELSE modeSync

\* Variant of Reload that resets the pool whatever the URLs are.
Reload_AlwaysReset(cfg) ==
    /\ reloads < MaxReloads
    /\ reloads' = reloads + 1
    /\ config' = cfg
    /\ mode' = ModeOf(cfg)
    /\ poolReset(poolGen)
    /\ poolGen' = poolGen + 1
    /\ UNCHANGED <<requestChan, pc, inbuf, database, req, client, leased,
                   responseCh, respClosed, netClosed, written, parsed,
                   workload, parserVars,
                   batchVars, queueVars, extVars>>
    /\ NoteFull

Reload(cfg) ==
    LET reset == config.Url # "" /\ config.Url # cfg.Url IN
    /\ reloads < MaxReloads
    /\ reloads' = reloads + 1
    /\ config' = cfg
    /\ mode' = ModeOf(cfg)
    /\ IF reset
       THEN \* srv.pool.reset(c); srv.pool = newPool(srv, c)
            /\ poolReset(poolGen)
            /\ poolGen' = poolGen + 1
       ELSE \* srv.pool.readConfig(c)
            UNCHANGED <<chanClosed, poolGen>>
    /\ UNCHANGED <<requestChan, pc, inbuf, database, req, client, leased,
                   responseCh, respClosed, netClosed, written, parsed,
                   workload, parserVars,
                   batchVars, queueVars, extVars>>
    /\ NoteFull

(***************************************************************************)
(* The batching backends: fs.Server (src/redis/fs/main.go), stream.Server  *)
(* and rsqs.Server (src/redis/rsqs/main.go).  A request is what            *)
(* lib.NewRequest makes of a RESP frame: its command, the number of its    *)
(* items, and for GET what srv.get will return.                            *)
(***************************************************************************)
BufCap == 1       \* capacity of the intake channel (srv.config.Buffer)
MaxSubmits == 4   \* payloads submitted to the worker of the queue backend
Submitters == 1..MaxSubmits

Kinds == {"fs", "stream", "sqs"}

respOK == "+OK"
respBadCommand == "-ERR bad command"
respKO == "-fatal error"
respBadSet == "-ERR - syntax: SET project key [timestamp] value"
respBadGet == "-ERR - syntax: GET project key [timestamp]"
respChanFull == "-ERR - The file can't be created"
respNotFound == "-KO - Key not found"
respClosing == "-ERR - Daemon closing"
respStored == "path"      \* redis.NewResp(r): the path of the message
respData == "data"        \* redis.NewResp(b): the content read by GET
respWriteErr == "-write error"   \* redis.NewResp(err) of a failed write
Pending == "pending"      \* no reply written yet

\* The commands table of each server (init).
bCommands(kind) ==
    CASE kind = "fs" -> {"PING", "SET", "GET"}
      [] kind = "stream" -> {"PING", "STSET", "STGET", "ST2BACK"}
      [] kind = "sqs" -> {"PING", "MULTI", "EXEC", "SET", "SADD", "HMSET",
                          "RAWSET"}
      [] OTHER -> {}

\* The command that hands a message to the intake channel as it is.  For
\* sqs this is RAWSET (srv.sendBytes); its SET, SADD and HMSET build a
\* record first and are followed in the section on MULTI and EXEC.
WriteCmd(kind) ==
    CASE kind = "stream" -> "STSET"
      [] kind = "sqs" -> "RAWSET"
      [] OTHER -> "SET"

\* The number of items of a well-formed write.
WriteItems(kind) == IF kind = "sqs" THEN 2 ELSE 4

BReq(cmd, items, err) == [cmd |-> cmd, items |-> items, err |-> err]

NoBReq == BReq("", 0, "none")

EOFReq == BReq("EOF", 0, "none")

\* What the clients of a server send: PING, a command that is not in the
\* table, a well-formed write, a write with too few items, and for fs a GET
\* that succeeds, one whose file is missing (*os.PathError) and one whose
\* timestamp is no number (*strconv.NumError).
BRequests(kind) ==
    {BReq("PING", 1, "none"), BReq("NOPE", 1, "none"),
     BReq(WriteCmd(kind), WriteItems(kind), "none")}
    \cup (IF kind \in {"fs", "stream"}
          THEN {BReq(WriteCmd(kind), 2, "none")}
          ELSE {})
    \cup (IF kind = "fs"
          THEN {BReq("GET", 3, "none"), BReq("GET", 3, "PathError"),
                BReq("GET", 4, "NumError")}
          ELSE {})

\* The write has the number of items the handler asks for.
SetArityOK(kind, items) ==
    CASE kind = "fs" -> ~(items <= 3 \/ items > 5)
      [] kind = "stream" -> items = 4
      [] OTHER -> ~(items > 2)

GetArityOK(items) == ~(items <= 2 \/ items > 4)

\* The replies written when the reply is the given one.
Written(reply) == IF reply = Pending THEN 0 ELSE 1

\* An entry of hlog: the request, srv.exiting when it was received, the
\* reply written for it (the last one) and how many were written, whether
\* it was put on the intake channel and whether the channel was full when
\* the handler tried.
Entry(r, ex, reply) ==
    [req |-> r, exiting |-> ex, reply |-> reply, n |-> Written(reply),
     enq |-> FALSE, full |-> FALSE]

\* A write of fs in sync mode whose file cannot be written.
SyncFailures(kind, sync) ==
    IF kind = "fs" /\ sync THEN {BReq("SET", 4, "WriteError")} ELSE {}

\* A panic that no deferred function recovers ends the process; crashed
\* keeps what panicked.
Panic(what) == crashed' = what

Alive == crashed = "no"

\* fastResponse, ok := commands[req.Command]
Known_Any(kind, cmd) == TRUE

Known(kind, cmd) == cmd \in bCommands(kind)

\* srv.canSend()
canSend == ~exiting

\* Start: l.Accept() returns a connection, go srv.handleConnection(netConn).
HAccept(c) ==
    /\ Alive
    /\ listening
    /\ hpc[c] = "idle"
    /\ hpc' = [hpc EXCEPT ![c] = "read"]
    /\ UNCHANGED <<bKind, bSync, exiting, listening, C, closedC, hreq, hlog,
                   crashed, exitPc, workerUp, held, stored, doneCount,
                   lostAtDone, srvVars, parserVars, queueVars, extVars>>

\* handleConnection: reader.Read() and everything up to the reply, or up to
\* the send on the intake channel.
HRead(c) ==
    /\ Alive
    /\ hpc[c] = "read"
    /\ \E r \in BRequests(bKind) \cup SyncFailures(bKind, bSync)
                                    \cup {EOFReq} :
          LET log(reply) == hlog' = [hlog EXCEPT ![c] =
                                Append(@, Entry(r, exiting, reply))]
              stay == /\ hpc' = hpc
                      /\ UNCHANGED <<hreq, crashed, stored>>
          IN
          /\ r # EOFReq => Len(hlog[c]) < MaxReqs
          /\ CASE r = EOFReq ->
                    \* the connection was closed: return
                    /\ hpc' = [hpc EXCEPT ![c] = "eof"]
                    /\ UNCHANGED <<hreq, hlog, crashed, stored>>
               [] r # EOFReq /\ bKind = "sqs" /\ ~canSend ->
                    \* respKO.WriteTo(netCon); return
                    /\ log(respKO)
                    /\ hpc' = [hpc EXCEPT ![c] = "closed"]
                    /\ UNCHANGED <<hreq, crashed, stored>>
               [] OTHER ->
                    IF ~Known(bKind, r.cmd)
                    THEN log(respBadCommand) /\ stay
                    ELSE IF r.cmd = "PING"
                    THEN log(respOK) /\ stay
                    ELSE IF r.cmd = "GET"
                    THEN IF ~GetArityOK(r.items)
                         THEN log(respBadGet) /\ stay
                         ELSE IF r.err = "none"
                         THEN log(respData) /\ stay
                         ELSE IF r.err = "PathError"
                         THEN log(respNotFound) /\ stay
                         ELSE \* err.(*os.PathError) on an error of another
                              \* type panics
                              /\ log(Pending)
                              /\ Panic("type assertion")
                              /\ UNCHANGED <<hpc, hreq, stored>>
                    ELSE IF ~SetArityOK(bKind, r.items)
                    THEN log(IF bKind = "sqs" THEN respKO ELSE respBadSet)
                         /\ stay
                    ELSE IF bKind = "fs" /\ bSync /\ r.err = "WriteError"
                    THEN \* w.writeTo(msg) fails: set writes the error and
                         \* returns it, and the handler writes it again
                         /\ hlog' = [hlog EXCEPT ![c] = Append(@,
                                [Entry(r, exiting, respWriteErr)
                                   EXCEPT !.n = 2])]
                         /\ stay
                    ELSE IF bKind = "fs" /\ bSync
                    THEN \* w.writeTo(msg): the file is written at once
                         /\ log(respStored)
                         /\ stored' = stored + 1
                         /\ UNCHANGED <<hpc, hreq, crashed>>
                    ELSE IF bKind = "fs" /\ exiting
                    THEN log(respClosing) /\ stay
                    ELSE /\ log(Pending)
                         /\ hpc' = [hpc EXCEPT ![c] = "send"]
                         /\ hreq' = [hreq EXCEPT ![c] = r]
                         /\ UNCHANGED <<crashed, stored>>
    /\ UNCHANGED <<bKind, bSync, exiting, listening, C, closedC, exitPc,
                   workerUp, held, doneCount, lostAtDone, srvVars, parserVars,
                   queueVars, extVars>>

\* The message of the request the handler of c is working on.
MsgOf(c) == <<c, Len(hlog[c])>>

\* The handler has tried the intake channel: the reply, and what happened.
Sent(c, reply, enq, full) ==
    hlog' = [hlog EXCEPT ![c][Len(hlog[c])] =
                 [@ EXCEPT !.reply = reply, !.n = Written(reply),
                           !.enq = enq, !.full = full]]

\* fs and stream: select { case C <- msg: ... default: ... }.  A send on a
\* closed channel panics, in a select too.
HTrySend(c) ==
    /\ Alive
    /\ bKind \in {"fs", "stream"}
    /\ hpc[c] = "send"
    /\ IF closedC
       THEN /\ Panic("send on closed channel")
            /\ Sent(c, Pending, FALSE, Len(C) >= BufCap)
            /\ UNCHANGED <<C, hpc, hreq>>
       ELSE /\ crashed' = crashed
            /\ hpc' = [hpc EXCEPT ![c] = "read"]
            /\ hreq' = [hreq EXCEPT ![c] = NoBReq]
            /\ IF Len(C) < BufCap
               THEN /\ C' = Append(C, MsgOf(c))
                    /\ Sent(c, IF bKind = "fs" THEN respStored ELSE respOK,
                            TRUE, FALSE)
               ELSE /\ C' = C
                    /\ Sent(c, respChanFull, FALSE, TRUE)
    /\ UNCHANGED <<bKind, bSync, exiting, listening, closedC, exitPc,
                   workerUp, held, stored, doneCount, lostAtDone, srvVars,
                   parserVars, queueVars, extVars>>

\* sqs: srv.sendRecord(row), "srv.recordsCh <- r", waits for room; then
\* fastResponse.WriteTo(netCon).
HSendRecord(c) ==
    /\ Alive
    /\ bKind = "sqs"
    /\ hpc[c] = "send"
    /\ Len(C) < BufCap
    /\ C' = Append(C, MsgOf(c))
    /\ Sent(c, respOK, TRUE, FALSE)
    /\ hpc' = [hpc EXCEPT ![c] = "read"]
    /\ hreq' = [hreq EXCEPT ![c] = NoBReq]
    /\ UNCHANGED <<bKind, bSync, exiting, listening, closedC, crashed, exitPc,
                   workerUp, held, stored, doneCount, lostAtDone, srvVars,
                   parserVars, queueVars, extVars>>

\* A worker takes the next message from the intake channel: a writer of
\* fs or stream stores it, the client of sqs appends it to its batch.  A
\* closed channel still hands out what it holds.
WorkerTake ==
    /\ Alive
    /\ workerUp
    /\ C # <<>>
    /\ C' = Tail(C)
    /\ IF bKind = "sqs"
       THEN held' = held + 1 /\ stored' = stored
       ELSE stored' = stored + 1 /\ held' = held
    /\ UNCHANGED <<bKind, bSync, exiting, listening, closedC, hpc, hreq, hlog,
                   crashed, exitPc, workerUp, doneCount, lostAtDone, srvVars,
                   parserVars, queueVars, extVars>>

\* The client of sqs flushes its batch (timer, or batch at its limit).
WorkerFlush ==
    /\ Alive
    /\ workerUp
    /\ bKind = "sqs"
    /\ held > 0
    /\ stored' = stored + held
    /\ held' = 0
    /\ UNCHANGED <<bKind, bSync, exiting, listening, C, closedC, hpc, hreq,
                   hlog, crashed, exitPc, workerUp, doneCount, lostAtDone,
                   srvVars, parserVars, queueVars, extVars>>

\* Exit: srv.exiting = true; srv.listener.Close().
ExitMark ==
    /\ Alive
    /\ exitPc = "idle"
    /\ exiting' = TRUE
    /\ listening' = FALSE
    /\ exitPc' = "marked"
    /\ UNCHANGED <<bKind, bSync, C, closedC, hpc, hreq, hlog, crashed,
                   workerUp, held, stored, doneCount, lostAtDone, srvVars,
                   parserVars, queueVars, extVars>>

\* Exit of fs and stream closes the intake channel: close(s.C) in
\* shard.exit, close(srv.C) in stream.
ExitCloseC ==
    /\ Alive
    /\ bKind \in {"fs", "stream"}
    /\ exitPc = "marked"
    /\ closedC' = TRUE
    /\ exitPc' = IF bKind = "fs" THEN "draining" ELSE "signal"
    /\ UNCHANGED <<bKind, bSync, exiting, listening, C, hpc, hreq, hlog,
                   crashed, workerUp, held, stored, doneCount, lostAtDone,
                   srvVars, parserVars, queueVars, extVars>>

\* Exit of fs waits until the writers of the shard have left (wg.Wait()),
\* which they do once everything in the channel is stored.
ExitDrained ==
    /\ Alive
    /\ bKind = "fs"
    /\ exitPc = "draining"
    /\ C = <<>>
    /\ workerUp' = FALSE
    /\ exitPc' = "signal"
    /\ UNCHANGED <<bKind, bSync, exiting, listening, C, closedC, hpc, hreq,
                   hlog, crashed, held, stored, doneCount, lostAtDone,
                   srvVars, parserVars, queueVars, extVars>>

\* Exit of sqs: c.Exit() for every client; the client flushes its batch on
\* <-clt.done and returns.  The intake channel is left as it is.
ExitClients ==
    /\ Alive
    /\ bKind = "sqs"
    /\ exitPc = "marked"
    /\ stored' = stored + held
    /\ held' = 0
    /\ workerUp' = FALSE
    /\ exitPc' = "signal"
    /\ UNCHANGED <<bKind, bSync, exiting, listening, C, closedC, hpc, hreq,
                   hlog, crashed, doneCount, lostAtDone, srvVars, parserVars,
                   queueVars, extVars>>

\* Exit: srv.done <- true.
ExitDone ==
    /\ Alive
    /\ exitPc = "signal"
    /\ doneCount' = doneCount + 1
    /\ lostAtDone' = Len(C) + held
    /\ exitPc' = "done"
    /\ UNCHANGED <<bKind, bSync, exiting, listening, C, closedC, hpc, hreq,
                   hlog, crashed, workerUp, held, stored, srvVars, parserVars,
                   queueVars, extVars>>

(***************************************************************************)
(* The worker of the queue backend (Client.listen)                         *)
(***************************************************************************)
maxRecordSize == 262144   \* bytes of one message body
maxBatchRecords == 10     \* default of MaxRecords

\* Body lengths of the records submitted: empty, small, the largest body
\* that is accepted and the smallest that is not.
RecordSizes == {0, 1, maxRecordSize, maxRecordSize + 1}

\* Values of MaxRecords in a configuration file.
ConfigMaxRecords == {0, 1, 2, 3}

\* Reload keeps a positive MaxRecords and replaces any other value by the
\* default.
MaxRecordsOf(v) == IF v <= 0 THEN maxBatchRecords ELSE v

\* A record is kept as the length of its body: InterRecord.Len and the
\* string that StringUniqID returns measure the same bytes.

\* Client.append: a body over maxRecordSize is refused, any other body is
\* added to the batch.
Fits(size) == ~(size > maxRecordSize)

appended(b, size) == IF Fits(size) THEN Append(b, size) ELSE b

\* Client.flush: an empty batch is not sent; any other batch is handed to
\* putRecordBatch whole, and the batch is reset whatever the transport
\* answers.  flushes keeps, for every batch handed over, its length, the
\* MaxRecords in force and its largest body.
SeqMax(b) ==
    IF b = <<>> THEN 0
    ELSE CHOOSE x \in {b[i] : i \in 1..Len(b)} :
             \A j \in 1..Len(b) : b[j] <= x

\* Variant of reset that leaves the batch as it is.
reset_Keep(b) == b

\* The end of Client.flush: clt.batchSize = 0; clt.batch = nil.
reset(b) == <<>>

\* Variant of timerReset that re-arms the timer only when a batch was sent.
timerReset_SkipsEmpty(b) == IF b = <<>> THEN "stopped" ELSE "armed"

\* The start of Client.flush, before the test for an empty batch: the timer
\* is stopped, its channel drained, and clt.timer.Reset(recordsTimeout).
timerReset(b) == "armed"

flushed(b) ==
    IF b = <<>> THEN flushes
    ELSE flushes \cup {[n |-> Len(b), max |-> qMax, largest |-> SeqMax(b)]}

\* Server.sendRecord: a handler puts a record on recordsCh.
SubmitAsync ==
    /\ qSent < MaxSubmits
    /\ Len(recordsCh) < BufCap
    /\ \E size \in RecordSizes :
          recordsCh' = Append(recordsCh, size)
    /\ qSent' = qSent + 1
    /\ UNCHANGED <<qMax, syncRecordCh, batch, acks, taken, flushes, qReloads,
                   qPc, qExit, qTimer>>
    /\ UNCHANGED <<srvVars, parserVars, batchVars, extVars>>

\* A submitter puts a payload and its acknowledgement channel on
\* syncRecordCh and waits for the acknowledgement.
SubmitSync ==
    /\ qSent < MaxSubmits
    /\ Len(syncRecordCh) < BufCap
    /\ \E size \in RecordSizes :
          syncRecordCh' = Append(syncRecordCh, [id |-> qSent + 1, r |-> size])
    /\ qSent' = qSent + 1
    /\ UNCHANGED <<qMax, recordsCh, batch, acks, taken, flushes, qReloads,
                   qPc, qExit, qTimer>>
    /\ UNCHANGED <<srvVars, parserVars, batchVars, extVars>>

\* listen, case sr := <-clt.srv.syncRecordCh
ListenSync ==
    /\ qPc = "listen"
    /\ syncRecordCh # <<>>
    /\ LET sr == Head(syncRecordCh) IN
          /\ syncRecordCh' = Tail(syncRecordCh)
          /\ taken' = taken \cup {sr.id}
          /\ IF sr.r <= 0
                THEN UNCHANGED <<batch, acks, flushes, qTimer>>
                ELSE IF ~Fits(sr.r)
                THEN /\ acks' = [acks EXCEPT ![sr.id] = Append(@, FALSE)]
                     /\ UNCHANGED <<batch, flushes, qTimer>>
                ELSE /\ flushes' = flushed(appended(batch, sr.r))
                     /\ qTimer' = timerReset(appended(batch, sr.r))
                     /\ batch' = reset(appended(batch, sr.r))
                     /\ acks' = [acks EXCEPT ![sr.id] = Append(@, TRUE)]
    /\ UNCHANGED <<qMax, recordsCh, qSent, qReloads, qPc, qExit>>
    /\ UNCHANGED <<srvVars, parserVars, batchVars, extVars>>

\* listen, case r := <-clt.srv.recordsCh
ListenAsync ==
    /\ qPc = "listen"
    /\ recordsCh # <<>>
    /\ LET r == Head(recordsCh) IN
          /\ recordsCh' = Tail(recordsCh)
          /\ IF r <= 0
                THEN UNCHANGED <<batch, flushes, qTimer>>
                ELSE IF Len(batch) + 1 >= qMax
                THEN /\ flushes' = flushed(batch)
                     /\ qTimer' = timerReset(batch)
                     /\ batch' = appended(reset(batch), r)
                ELSE /\ batch' = appended(batch, r)
                     /\ UNCHANGED <<flushes, qTimer>>
    /\ UNCHANGED <<qMax, syncRecordCh, acks, taken, qSent, qReloads, qPc,
                   qExit>>
    /\ UNCHANGED <<srvVars, parserVars, batchVars, extVars>>

\* listen, case <-clt.timer.C: the armed timer expires and listen takes
\* its value.
TimerFlush ==
    /\ qPc = "listen"
    /\ qTimer = "armed"
    /\ flushes' = flushed(batch)
    /\ qTimer' = timerReset(batch)
    /\ batch' = reset(batch)
    /\ UNCHANGED <<qMax, recordsCh, syncRecordCh, acks, taken, qSent,
                   qReloads, qPc, qExit>>
    /\ UNCHANGED <<srvVars, parserVars, batchVars, extVars>>

\* Server.Reload of the queue backend with a new configuration.
QReload ==
    /\ qReloads < MaxReloads
    /\ \E v \in ConfigMaxRecords : qMax' = MaxRecordsOf(v)
    /\ qReloads' = qReloads + 1
    /\ UNCHANGED <<recordsCh, syncRecordCh, batch, acks, taken, flushes,
                   qSent, qPc, qExit, qTimer>>
    /\ UNCHANGED <<srvVars, parserVars, batchVars, extVars>>

\* Client.Exit: clt.done <- true.  The send waits until listen takes it.
ClientExit ==
    /\ qPc = "listen"
    /\ qExit = "no"
    /\ qExit' = "sending"
    /\ UNCHANGED <<qMax, recordsCh, syncRecordCh, batch, acks, taken, flushes,
                   qSent, qReloads, qPc, qTimer>>
    /\ UNCHANGED <<srvVars, parserVars, batchVars, extVars>>

\* listen, case <-clt.done: flush, stop the timer, clt.finish <- true.
ListenDone ==
    /\ qPc = "listen"
    /\ qExit = "sending"
    /\ flushes' = flushed(batch)
    /\ batch' = reset(batch)
    /\ qTimer' = "stopped"
    /\ qPc' = "finish"
    /\ qExit' = "waiting"
    /\ UNCHANGED <<qMax, recordsCh, syncRecordCh, acks, taken, qSent,
                   qReloads>>
    /\ UNCHANGED <<srvVars, parserVars, batchVars, extVars>>

\* Client.Exit: <-clt.finish, and Exit returns; listen returns.
ExitReturn ==
    /\ qPc = "finish"
    /\ qExit = "waiting"
    /\ qPc' = "stopped"
    /\ qExit' = "returned"
    /\ UNCHANGED <<qMax, recordsCh, syncRecordCh, batch, acks, taken, flushes,
                   qSent, qReloads, qTimer>>
    /\ UNCHANGED <<srvVars, parserVars, batchVars, extVars>>

(***************************************************************************)
(* MULTI / EXEC / SET on a connection of the queue server                  *)
(* (handleConnection of src/redis/rsqs/main.go) and the client that takes  *)
(* the records.                                                            *)
(***************************************************************************)
MaxCmds == 4      \* commands the connection sends

Recs == 1..MaxCmds

TxCommands == {"MULTI", "EXEC", "SET", "SADD", "HMSET", "RAWSET"}

\* A request of the connection: its command and len(req.Items).
TxReq(cmd, n) == [cmd |-> cmd, n |-> n]

\* The requests the connection chooses from: HMSET with a key only and with
\* one field, RAWSET with one payload and with two.
TxRequests ==
    {TxReq("MULTI", 1), TxReq("EXEC", 1), TxReq("SET", 3), TxReq("SADD", 3),
     TxReq("HMSET", 2), TxReq("HMSET", 4), TxReq("RAWSET", 2),
     TxReq("RAWSET", 3)}

\* row = &lib.InterRecord{}: a record whose Data, a map, is nil
NewRow ==
    /\ row' = nextRec
    /\ nextRec' = nextRec + 1

\* row.Add(k, v), row.Sadd(k, v), row.Mhset(key, k, v): each assigns to
\* r.Data[key].  Every record of the handler is made by the composite
\* literal, so Data is nil and the assignment panics; nothing recovers, the
\* process ends.
AddTo == txPc' = "crashed"

\* The loop of HMSET calls row.Mhset once per field: items 1 is the key,
\* then field and value alternate.
Fields(n) == IF n >= 4 THEN (n - 2) \div 2 ELSE 0

\* An entry of txLog: the request, multi and row before it, what came of it
\* ("ok": fastResponse, "ko": respKO, "panic"), the record handed to
\* sendRecord if any, and multi after it.
TxEntry(q, out, send, after) ==
    [cmd |-> q.cmd, n |-> q.n, multi |-> multi, row |-> row, out |-> out,
     send |-> send, after |-> after]

\* One pass of the loop of handleConnection up to the reply, or up to
\* srv.sendRecord when there is a record to send.
TxCommand ==
    /\ txPc = "read"
    /\ txCmds < MaxCmds
    /\ txCmds' = txCmds + 1
    /\ \E q \in TxRequests :
          LET done(out, send, after) ==
                  txLog' = Append(txLog, TxEntry(q, out, send, after))
          IN
          CASE q.cmd = "RAWSET" /\ (multi \/ q.n > 2) ->
                  \* respKO.WriteTo(netCon); continue
                  /\ done("ko", <<>>, multi)
                  /\ UNCHANGED <<multi, row, nextRec, txPc>>
            [] q.cmd = "RAWSET" /\ ~(multi \/ q.n > 2) ->
                  \* srv.sendBytes(src): a record of its own
                  /\ done("ok", <<nextRec>>, multi)
                  /\ nextRec' = nextRec + 1
                  /\ txPc' = "send"
                  /\ UNCHANGED <<multi, row>>
            [] q.cmd = "MULTI" ->
                  /\ multi' = TRUE
                  /\ NewRow
                  /\ done("ok", <<>>, TRUE)
                  /\ UNCHANGED txPc
            [] q.cmd = "EXEC" ->
                  /\ multi' = FALSE
                  /\ done("ok", <<row>>, FALSE)
                  /\ txPc' = "send"
                  /\ UNCHANGED <<row, nextRec>>
            [] q.cmd \in {"SET", "SADD"} /\ multi ->
                  /\ AddTo
                  /\ done("panic", <<>>, multi)
                  /\ UNCHANGED <<multi, row, nextRec>>
            [] q.cmd \in {"SET", "SADD"} /\ ~multi ->
                  /\ NewRow
                  /\ AddTo
                  /\ done("panic", <<>>, multi)
                  /\ UNCHANGED multi
            [] q.cmd = "HMSET" ->
                  /\ IF multi THEN UNCHANGED <<row, nextRec>> ELSE NewRow
                  /\ IF Fields(q.n) > 0
                     THEN /\ AddTo
                          /\ done("panic", <<>>, multi)
                     ELSE IF multi
                     THEN /\ done("ok", <<>>, multi)
                          /\ UNCHANGED txPc
                     ELSE /\ done("ok", <<nextRec>>, multi)
                          /\ txPc' = "send"
                  /\ UNCHANGED multi
    /\ UNCHANGED <<txCh, txBatch, txHanded>>
    /\ UNCHANGED <<srvVars, parserVars, batchVars, queueVars, scaleVars, fsVars,
                   moreVars>>

\* The record the handler is about to send.
Outgoing == txLog[Len(txLog)].send[1]

\* srv.sendRecord(row): srv.recordsCh <- row, which waits for room; then
\* fastResponse.WriteTo(netCon) and the next pass.
TxSend ==
    /\ txPc = "send"
    /\ Len(txCh) < BufCap
    /\ txCh' = Append(txCh, Outgoing)
    /\ txPc' = "read"
    /\ UNCHANGED <<multi, row, txLog, nextRec, txBatch, txHanded, txCmds>>
    /\ UNCHANGED <<srvVars, parserVars, batchVars, queueVars, scaleVars, fsVars,
                   moreVars>>

\* putRecordBatch: the batch goes to the transport once, whether the call
\* succeeds or fails.
handed(b, ok) ==
    IF b = <<>> THEN txHanded
    ELSE Append(txHanded, [entries |-> b, ok |-> ok])

\* listen, case r := <-clt.srv.recordsCh.  r.Len() on a nil record is a nil
\* pointer dereference, which ends the process.
TxListen ==
    /\ txPc # "crashed"
    /\ txCh # <<>>
    /\ txCh' = Tail(txCh)
    /\ IF Head(txCh) = Nil
          THEN /\ txPc' = "crashed"
               /\ UNCHANGED <<txBatch, txHanded>>
          ELSE /\ UNCHANGED txPc
               /\ IF Len(txBatch) + 1 >= qMax
                     THEN \E ok \in BOOLEAN :
                             /\ txHanded' = handed(txBatch, ok)
                             /\ txBatch' = <<Head(txCh)>>
                     ELSE /\ txBatch' = Append(txBatch, Head(txCh))
                          /\ UNCHANGED txHanded
    /\ UNCHANGED <<multi, row, txLog, nextRec, txCmds>>
    /\ UNCHANGED <<srvVars, parserVars, batchVars, queueVars, scaleVars, fsVars,
                   moreVars>>

\* listen, case <-clt.timer.C
TxTimer ==
    /\ txPc # "crashed"
    /\ txBatch # <<>>
    /\ \E ok \in BOOLEAN : txHanded' = handed(txBatch, ok)
    /\ txBatch' = <<>>
    /\ UNCHANGED <<multi, row, txLog, nextRec, txPc, txCh, txCmds>>
    /\ UNCHANGED <<srvVars, parserVars, batchVars, queueVars, scaleVars, fsVars,
                   moreVars>>

(***************************************************************************)
(* The worker fanout of the streaming backend (kinesis Server) and the     *)
(* controller that sets the desired number of workers.                     *)
(***************************************************************************)
defaultMaxWorkers == 10
KCap == 5          \* cap(srv.C)
MaxTime == 5       \* intervals of the controller
CoolDownTicks == 2 \* CoolDownPeriod, in intervals

\* Values of MaxWorkers in a configuration.
ConfigMaxWorkers == {0, 1, 2, 3}

\* Reload: MaxWorkers == 0 becomes defaultMaxWorkers.
MaxWorkersOf(v) == IF v = 0 THEN defaultMaxWorkers ELSE v

\* Variant of WarmFn that is also true at the threshold.
WarmFn_AtLeast ==
    IF cliDesired = 0 THEN TRUE
    ELSE IF kLen = 0 THEN FALSE
    ELSE kLen * 10 >= KCap * 6

\* WarmFn: true before the first evaluation; false on an empty channel;
\* otherwise whether the occupancy is over ThresholdWarmUp (0.6).
WarmFn ==
    IF cliDesired = 0 THEN TRUE
    ELSE IF kLen = 0 THEN FALSE
    ELSE kLen * 10 > KCap * 6

Min2(a, b) == IF a < b THEN a ELSE b
Max2(a, b) == IF a > b THEN a ELSE b

\* What the controller proposes: one worker more when warm, one less when
\* not, within [1, Max].
Proposal == Max2(1, Min2(IF WarmFn THEN cliDesired + 1 ELSE cliDesired - 1,
                         mMax))

CooledDown ==
    kChanges = <<>> \/ kNow + 1 - kChanges[Len(kChanges)] >= CoolDownTicks

\* DesireFn(n): srv.cliDesired = int(n)
DesireFn(n) ==
    /\ cliDesired' = n
    /\ kChanges' = Append(kChanges, kNow + 1)

\* One interval passes and the controller evaluates the warm predicate.
KTick ==
    /\ kNow < MaxTime
    /\ kNow' = kNow + 1
    /\ IF Proposal # cliDesired /\ CooledDown
          THEN DesireFn(Proposal)
          ELSE UNCHANGED <<cliDesired, kChanges>>
    /\ UNCHANGED <<kMaxWorkers, kLen, mMax, mPending, kReloads>>
    /\ UNCHANGED <<srvVars, parserVars, batchVars, queueVars, txVars, fsVars,
                   moreVars>>

\* A producer puts a record on srv.C.
KPut ==
    /\ kNow < MaxTime
    /\ kLen < KCap
    /\ kLen' = kLen + 1
    /\ UNCHANGED <<kMaxWorkers, cliDesired, mMax, mPending, kNow, kChanges,
                   kReloads>>
    /\ UNCHANGED <<srvVars, parserVars, batchVars, queueVars, txVars, fsVars,
                   moreVars>>

\* A worker takes a record from srv.C.
KTake ==
    /\ kNow < MaxTime
    /\ kLen > 0
    /\ kLen' = kLen - 1
    /\ UNCHANGED <<kMaxWorkers, cliDesired, mMax, mPending, kNow, kChanges,
                   kReloads>>
    /\ UNCHANGED <<srvVars, parserVars, batchVars, queueVars, txVars, fsVars,
                   moreVars>>

\* Server.Reload: the new configuration is stored at once and handed to
\* the controller by "go srv.monad.Reload(monadCfg)".
KReload ==
    /\ kNow < MaxTime
    /\ kReloads < MaxReloads
    /\ kReloads' = kReloads + 1
    /\ \E v \in ConfigMaxWorkers :
          /\ kMaxWorkers' = MaxWorkersOf(v)
          /\ mPending' = mPending \cup {MaxWorkersOf(v)}
    /\ UNCHANGED <<cliDesired, kLen, mMax, kNow, kChanges>>
    /\ UNCHANGED <<srvVars, parserVars, batchVars, queueVars, txVars, fsVars,
                   moreVars>>

\* The goroutine of srv.monad.Reload runs: the controller takes the
\* configuration.
KMonadReload ==
    /\ \E m \in mPending :
          /\ mMax' = m
          /\ mPending' = mPending \ {m}
    /\ UNCHANGED <<kMaxWorkers, cliDesired, kLen, kNow, kChanges, kReloads>>
    /\ UNCHANGED <<srvVars, parserVars, batchVars, queueVars, txVars, fsVars,
                   moreVars>>

(***************************************************************************)
(* The filesystem backend: Msg (src/redis/fs/msg.go), the shards of        *)
(* Server.Reload and GET (src/redis/fs/main.go).                           *)
(***************************************************************************)
defaultShards == 64
NoShard == -1      \* m.shard of a message whose shard is not computed
MaxFsOps == 5      \* operations on messages in one run
MaxGets == 2       \* GET requests in one run

\* 32-bit words are pairs <<high, low>> of 16-bit halves.
RECURSIVE XorBits(_, _, _)
XorBits(a, b, n) ==
    IF n = 0 THEN 0
    ELSE ((a + b) % 2) + 2 * XorBits(a \div 2, b \div 2, n - 1)

Xor32(x, y) == <<XorBits(x[1], y[1], 16), XorBits(x[2], y[2], 16)>>

Shr1(x) == <<x[1] \div 2, (x[2] \div 2) + (x[1] % 2) * 32768>>

ieeePoly == <<60856, 33568>>   \* 0xedb88320, the reversed IEEE polynomial
allOnes == <<65535, 65535>>    \* 0xffffffff

RECURSIVE crcBits(_, _)
crcBits(x, n) ==
    IF n = 0 THEN x
    ELSE crcBits(IF x[2] % 2 = 1 THEN Xor32(Shr1(x), ieeePoly) ELSE Shr1(x),
                 n - 1)

RECURSIVE crcUpdate(_, _)
crcUpdate(x, codes) ==
    IF codes = <<>> THEN x
    ELSE crcUpdate(crcBits(Xor32(x, <<0, Head(codes)>>), 8), Tail(codes))

\* crc32.ChecksumIEEE of a sequence of byte values
ChecksumIEEE(codes) == Xor32(crcUpdate(allOnes, codes), allOnes)

\* x % s for a 32-bit word x and 0 < s < 32768
Mod32(x, s) == ((x[1] % s) * (65536 % s) + (x[2] % s)) % s

\* []byte(m.k): the values of the bytes of the keys of the runs
byteCode == ("a" :> 97) @@ ("b" :> 98) @@ ("k" :> 107)

CodesOf(k) == [i \in 1..Len(k) |-> byteCode[k[i]]]

hexDigits == <<"0", "1", "2", "3", "4", "5", "6", "7", "8", "9",
               "a", "b", "c", "d", "e", "f">>

RECURSIVE Hex(_)
Hex(n) == IF n < 16 THEN <<hexDigits[n + 1]>>
          ELSE Hex(n \div 16) \o <<hexDigits[(n % 16) + 1]>>

\* fmt.Sprintf("%02x", n) for n >= 0
Hex02(n) == IF n < 16 THEN <<"0">> \o Hex(n) ELSE Hex(n)

FsKeys == {<<"a">>, <<"b">>}
FsProjects == {"p"}
FsTimes == {0, 59, 60}          \* m.t, in seconds
ConfigShards == {-1, 0, 3}      \* Shards of a configuration
GetKeys == {<<"a">>}            \* the key of a GET

\* crc32.ChecksumIEEE([]byte(k)) of the keys of the runs, computed once
keySum == [k \in FsKeys |-> ChecksumIEEE(CodesOf(k))]

\* A Msg of msgPool.  held tells whether a handler holds it; gen is the
\* number of Reloads that had run when getMsg handed it out.
MsgIds == {1, 2}

NewMsg ==
    [project |-> "", k |-> <<>>, t |-> 0, shard |-> 0, disableShards |-> FALSE,
     held |-> FALSE, gen |-> <<>>]

\* Variant of getMsg that does not reset m.shard.
getMsg_KeepShard(m) ==
    [m EXCEPT !.disableShards = FALSE, !.held = TRUE, !.gen = fLoaded]

\* getMsg: m.shard = -1; m.srv = srv; m.disableShards = false
getMsg(m) ==
    [m EXCEPT !.shard = NoShard, !.disableShards = FALSE, !.held = TRUE,
              !.gen = fLoaded]

\* The clock at putMsg.  getMsg does not touch m.t and the next handler
\* either sets it or reads with it: its choice of t covers both.
FsNow == 60

\* putMsg: m.k = ""; m.project = ""; m.t = time.Now()
putMsg(m) ==
    [m EXCEPT !.k = <<>>, !.project = "", !.t = FsNow, !.held = FALSE]

Disabled(m) == fShards = 0 \/ m.disableShards

\* Msg.getShard: the value returned and the message afterwards
getShard(m) ==
    IF m.shard >= 0 THEN [v |-> m.shard, m |-> m]
    ELSE IF Disabled(m) THEN [v |-> m.shard, m |-> m]
    ELSE LET h == Mod32(keySum[m.k], fShards) IN
         [v |-> h, m |-> [m EXCEPT !.shard = h]]

\* Msg.hourpath: project/year/month/day/hour; the hour of m.t.UTC() is kept
\* as the number of whole hours of m.t.
hourpath(m) == [project |-> m.project, hour |-> m.t \div 3600]

\* Msg.path: hourpath/minute, and /shard in two hexadecimal digits unless
\* the shards are disabled
path(m) ==
    IF Disabled(m)
    THEN [v |-> [base |-> "", hourpath |-> hourpath(m),
                 minute |-> (m.t \div 60) % 60, shard |-> <<>>],
          m |-> m]
    ELSE [v |-> [base |-> "", hourpath |-> hourpath(m),
                 minute |-> (m.t \div 60) % 60,
                 shard |-> Hex02(getShard(m).v)],
          m |-> getShard(m).m]

\* Msg.fullpath: srv.config.Path/path
fullpath(m) == [v |-> [path(m).v EXCEPT !.base = "/tmp"], m |-> path(m).m]

\* Variant of defaulted that leaves a shard count of 0 as it is.
defaulted_Zero(v) == v

\* Reload: "If Shards is 0 we manage it as undefined so we apply the
\* default value"
defaulted(v) == IF v = 0 THEN defaultShards ELSE v

\* Server.Reload of the filesystem backend
FsReload ==
    /\ ~fCrashed
    /\ Len(fLoaded) <= MaxReloads
    /\ \E v \in ConfigShards :
          /\ fLoaded' = Append(fLoaded, v)
          /\ fCfgShards' = defaulted(v)
          /\ fShards' = IF defaulted(v) > 0 THEN defaulted(v) ELSE fShards
    /\ fCompress' \in BOOLEAN
    /\ fSess' \in BOOLEAN
    /\ UNCHANGED <<fPool, fCalls, fGets, fCrashed, fOps>>
    /\ UNCHANGED <<srvVars, parserVars, batchVars, queueVars, txVars,
                   scaleVars,
                   moreVars>>

\* The start of set and get: msg := getMsg(srv), then the project, the key
\* and the time of the request.
FsNewMsg(i) ==
    /\ ~fCrashed
    /\ fOps < MaxFsOps
    /\ ~fPool[i].held
    /\ \E p \in FsProjects, k \in FsKeys, t \in FsTimes :
          fPool' = [fPool EXCEPT ![i] =
                       [getMsg(@) EXCEPT !.project = p, !.k = k, !.t = t]]
    /\ fOps' = fOps + 1
    /\ UNCHANGED <<fLoaded, fCfgShards, fShards, fCompress, fSess, fCalls,
                   fGets, fCrashed>>
    /\ UNCHANGED <<srvVars, parserVars, batchVars, queueVars, txVars,
                   scaleVars,
                   moreVars>>

Call(op, m) ==
    CASE op = "getShard" -> getShard(m)
      [] op = "path" -> path(m)
      [] op = "fullpath" -> fullpath(m)

\* A call of getShard, path or fullpath on a message a handler holds.
FsCall(i) ==
    /\ ~fCrashed
    /\ fOps < MaxFsOps
    /\ fPool[i].held
    /\ \E op \in {"getShard", "path", "fullpath"} :
          LET m == fPool[i]
              r == Call(op, m)
          IN  /\ fPool' = [fPool EXCEPT ![i] = r.m]
              /\ fCalls' = fCalls \cup
                    {[op |-> op, project |-> m.project, k |-> m.k,
                      minute |-> m.t \div 60, S |-> fShards,
                      raw |-> fLoaded[Len(fLoaded)],
                      fixed |-> (m.gen = fLoaded),
                      shard |-> IF op = "getShard" THEN r.v ELSE NoShard,
                      path |-> IF op = "getShard" THEN <<>> ELSE <<r.v>>]}
    /\ fOps' = fOps + 1
    /\ UNCHANGED <<fLoaded, fCfgShards, fShards, fCompress, fSess, fGets,
                   fCrashed>>
    /\ UNCHANGED <<srvVars, parserVars, batchVars, queueVars, txVars,
                   scaleVars,
                   moreVars>>

\* defer putMsg(msg), or the writer's putMsg after the file is written
FsPutMsg(i) ==
    /\ ~fCrashed
    /\ fOps < MaxFsOps
    /\ fPool[i].held
    /\ fPool' = [fPool EXCEPT ![i] = putMsg(@)]
    /\ fOps' = fOps + 1
    /\ UNCHANGED <<fLoaded, fCfgShards, fShards, fCompress, fSess, fCalls,
                   fGets, fCrashed>>
    /\ UNCHANGED <<srvVars, parserVars, batchVars, queueVars, txVars,
                   scaleVars,
                   moreVars>>

\* What a lookup can find on the local disk: no file, a file of size 0, a
\* file with content, and for a gzip file content that is not gzip.
FileStates == {"absent", "empty", "data", "bad"}

\* The local files of one GET: d[<<sharded, gz>>] is the state of the file
\* under the path with or without the shard, with extGz or extPlain.
\* Files that no lookup of the configuration reaches are left absent.
Disks ==
    {d \in [BOOLEAN \X BOOLEAN -> FileStates] :
        \A sh \in BOOLEAN :
           /\ d[<<sh, FALSE>>] # "bad"
           /\ ~fCompress => d[<<sh, TRUE>>] = "absent"
           /\ (sh /\ fShards = 0) =>
                 d[<<sh, TRUE>>] = "absent" /\ d[<<sh, FALSE>>] = "absent"}

\* Msg.bytesFile on a file in state st
bytesFile(st, gz) ==
    IF st = "absent" THEN [b |-> "nil", err |-> "PathError"]
    ELSE IF ~gz THEN [b |-> IF st = "data" THEN "data" ELSE "empty",
                      err |-> "nil"]
    ELSE IF st = "empty" THEN [b |-> "nil", err |-> "EOF"]
    ELSE IF st = "bad" THEN [b |-> "nil", err |-> "gzip"]
    ELSE [b |-> "data", err |-> "nil"]

\* The results of the reader of the object store: the object, an
\* *os.PathError or an error of another type.  Without a session the reader
\* has no store to consult and returns an error.
S3Results(sess) ==
    IF sess
    THEN {[b |-> "data", err |-> "nil"], [b |-> "nil", err |-> "PathError"],
          [b |-> "nil", err |-> "other"]}
    ELSE {[b |-> "nil", err |-> "PathError"], [b |-> "nil", err |-> "other"]}

\* Msg.bytesS3, appended to the lookups when the store is consulted
bytesS3(s3, looks) ==
    [b |-> s3.b, err |-> s3.err,
     looks |-> IF fSess
               THEN Append(looks, [at |-> "s3", gz |-> FALSE, err |-> s3.err])
               ELSE looks]

Look(m, gz, err) ==
    [at |-> IF Disabled(m) THEN "unsharded" ELSE "sharded", gz |-> gz,
     err |-> err]

\* Variant of Bytes that does not retry with the shards disabled.
RECURSIVE Bytes_NoRetry(_, _, _, _)
Bytes_NoRetry(m, d, s3, looks) ==
    LET g == bytesFile(d[<<~Disabled(m), TRUE>>], TRUE)
        p == bytesFile(d[<<~Disabled(m), FALSE>>], FALSE)
        afterGz == IF fCompress THEN Append(looks, Look(m, TRUE, g.err))
                   ELSE looks
        afterPlain == Append(afterGz, Look(m, FALSE, p.err))
        n == fullpath(m).m
    IN  IF fCompress /\ g.err \in {"nil", "EOF"}
        THEN [b |-> g.b, err |-> g.err, looks |-> afterGz, m |-> n]
        ELSE IF p.err = "nil"
        THEN [b |-> p.b, err |-> p.err, looks |-> afterPlain, m |-> n]
        ELSE bytesS3(s3, afterPlain) @@ [m |-> n]

\* Msg.Bytes: the gzip file when Compress is set, the plain file, the same
\* again with the shards disabled for this message, then the object store.
RECURSIVE Bytes(_, _, _, _)
Bytes(m, d, s3, looks) ==
    LET g == bytesFile(d[<<~Disabled(m), TRUE>>], TRUE)
        p == bytesFile(d[<<~Disabled(m), FALSE>>], FALSE)
        afterGz == IF fCompress THEN Append(looks, Look(m, TRUE, g.err))
                   ELSE looks
        afterPlain == Append(afterGz, Look(m, FALSE, p.err))
        n == fullpath(m).m
    IN  IF fCompress /\ g.err \in {"nil", "EOF"}
        THEN [b |-> g.b, err |-> g.err, looks |-> afterGz, m |-> n]
        ELSE IF p.err = "nil"
        THEN [b |-> p.b, err |-> p.err, looks |-> afterPlain, m |-> n]
        ELSE IF fShards > 0 /\ ~m.disableShards
        THEN Bytes([n EXCEPT !.disableShards = TRUE], d, s3, afterPlain)
        ELSE bytesS3(s3, afterPlain) @@ [m |-> n]

\* What GET writes to the client for the result of srv.get: the content, or
\* respNotFound for an *os.PathError; the type assertion of the switch
\* panics for an error of any other type.
GetReply(r) ==
    IF r.err = "nil" THEN r.b
    ELSE IF r.err = "PathError" THEN "notfound"
    ELSE "panic"

\* GET project key: srv.get and the switch of handleConnection.  With no
\* timestamp in the request the message keeps the m.t of the pool.
FsGet(i) ==
    /\ ~fCrashed
    /\ fOps < MaxGets
    /\ ~fPool[i].held
    /\ \E pr \in FsProjects, k \in GetKeys :
          \E r \in {Bytes([getMsg(fPool[i]) EXCEPT !.project = pr, !.k = k],
                           d, s3, <<>>) :
                        d \in Disks, s3 \in S3Results(fSess)} :
              /\ fPool' = [fPool EXCEPT ![i] = putMsg(r.m)]
              /\ fGets' = {[compress |-> fCompress, S |-> fShards,
                            sess |-> fSess, looks |-> r.looks,
                            reply |-> GetReply(r)]}
              /\ fCrashed' = (GetReply(r) = "panic")
    /\ fOps' = fOps + 1
    /\ UNCHANGED <<fLoaded, fCfgShards, fShards, fCompress, fSess, fCalls>>
    /\ UNCHANGED <<srvVars, parserVars, batchVars, queueVars, txVars,
                   scaleVars,
                   moreVars>>

(***************************************************************************)
(* The writers a server keeps in a channel: Server.Reload of the stream    *)
(* server (src/redis/rsqs/main.go) and shard.reload of the filesystem      *)
(* server (src/unnamed/part_001).  Reload runs under the lock of the       *)
(* server, so nothing else touches the channel while it stands in a loop.  *)
(***************************************************************************)
WritersCap == 2     \* capacity of the channel that holds the writers
MaxWReloads == 4    \* calls of Reload, the one of New included

WriterKinds == {"stream", "shard"}

ConfigWriters == 0..(WritersCap + 1)

\* The number of writers Reload works with: the stream server replaces 0 by
\* defaultMaxWriters, which is also the capacity of its channel; the shard
\* takes config.Writers as it is.
WantedWriters(kind, n) == IF kind = "stream" /\ n = 0 THEN WritersCap ELSE n

\* Reload up to the first pass of a loop: lw := len(srv.writers), and the
\* branch taken.
WReload ==
    /\ wPc = "idle"
    /\ wReloads < MaxWReloads
    /\ wReloads' = wReloads + 1
    /\ \E n \in ConfigWriters :
          LET want == WantedWriters(wKind, n) IN
          /\ wCfg' = want
          /\ IF wLen = want
             THEN UNCHANGED <<wPc, wI, wTo>>
             ELSE IF wLen > want
             THEN wPc' = "shrink" /\ wI' = want /\ wTo' = wLen
             ELSE wPc' = "grow" /\ wI' = wLen /\ wTo' = want
    /\ UNCHANGED <<wKind, wLen, wSpawned, wStopped, httpVars>>
    /\ UNCHANGED <<srvVars, parserVars, batchVars, queueVars, txVars,
                   scaleVars, fsVars>>

\* One pass of "srv.writers <- newWriter(srv)" with room in the channel.
WSpawn ==
    /\ wPc = "grow"
    /\ wLen < WritersCap
    /\ wLen' = wLen + 1
    /\ wSpawned' = wSpawned + 1
    /\ wI' = wI + 1
    /\ wPc' = IF wI + 1 < wTo THEN "grow" ELSE "idle"
    /\ UNCHANGED <<wKind, wCfg, wTo, wStopped, wReloads, httpVars>>
    /\ UNCHANGED <<srvVars, parserVars, batchVars, queueVars, txVars,
                   scaleVars, fsVars>>

\* The same pass with the channel at its capacity: newWriter has made the
\* writer, and the send waits for a receiver that cannot come.
WSpawnBlocked ==
    /\ wPc = "grow"
    /\ wLen >= WritersCap
    /\ wSpawned' = wSpawned + 1
    /\ wPc' = "blocked"
    /\ UNCHANGED <<wKind, wCfg, wLen, wI, wTo, wStopped, wReloads, httpVars>>
    /\ UNCHANGED <<srvVars, parserVars, batchVars, queueVars, txVars,
                   scaleVars, fsVars>>

\* One pass of "w := <-srv.writers; w.exit()".
WStop ==
    /\ wPc = "shrink"
    /\ wLen > 0
    /\ wLen' = wLen - 1
    /\ wStopped' = wStopped + 1
    /\ wI' = wI + 1
    /\ wPc' = IF wI + 1 < wTo THEN "shrink" ELSE "idle"
    /\ UNCHANGED <<wKind, wCfg, wTo, wSpawned, wReloads, httpVars>>
    /\ UNCHANGED <<srvVars, parserVars, batchVars, queueVars, txVars,
                   scaleVars, fsVars>>

(***************************************************************************)
(* The connection limiter of the HTTP proxy: limitHandler of               *)
(* src/http/http.go.                                                       *)
(***************************************************************************)
NumReqs == 3        \* requests that may be in ServeHTTP at the same time
MaxSems == 2        \* semaphores MaxConns makes after New
MaxServed == 3      \* requests that leave ServeHTTP

Reqs == 1..NumReqs
Sems == 1..(MaxSems + 1)

ConfigMaxConns == {0, 1, 2}

Waiting(sem) == [pc |-> "wait", sem |-> sem]
Serving(sem) == [pc |-> "in", sem |-> sem]
Outside == [pc |-> "idle", sem |-> Nil]

\* MaxConns(maxConns)
MaxConns(n) ==
    IF hSem # Nil /\ n = hCap[hSem]
    THEN UNCHANGED <<hSem, hCap, hMade, hMax>>
    ELSE IF n <= 0
    THEN /\ hSem' = Nil
         /\ hMax' = n
         /\ UNCHANGED <<hCap, hMade>>
    ELSE \* h.sem = make(chan struct{}, maxConns)
         /\ hMade' = hMade + 1
         /\ hSem' = hMade + 1
         /\ hCap' = [hCap EXCEPT ![hMade + 1] = n]
         /\ hMax' = n

\* Reload of the proxy calls s.limiter.MaxConns(c.MaxConnections).
HMaxConns ==
    /\ hMade <= MaxSems
    /\ \E n \in ConfigMaxConns : MaxConns(n)
    /\ UNCHANGED <<hTokens, hReq, hServed, wrVars>>
    /\ UNCHANGED <<srvVars, parserVars, batchVars, queueVars, txVars,
                   scaleVars, fsVars>>

\* ServeHTTP: sem := h.sem under the lock; without a semaphore the request
\* goes to the handler at once.
HEnter(r) ==
    /\ hReq[r].pc = "idle"
    /\ hServed < MaxServed
    /\ hReq' = [hReq EXCEPT ![r] =
                   IF hSem = Nil THEN Serving(Nil) ELSE Waiting(hSem)]
    /\ UNCHANGED <<hSem, hCap, hTokens, hMade, hMax, hServed, wrVars>>
    /\ UNCHANGED <<srvVars, parserVars, batchVars, queueVars, txVars,
                   scaleVars, fsVars>>

\* ServeHTTP: sem <- struct{}{}, which waits for room in sem.
HAcquire(r) ==
    /\ hReq[r].pc = "wait"
    /\ hTokens[hReq[r].sem] < hCap[hReq[r].sem]
    /\ hTokens' = [hTokens EXCEPT ![hReq[r].sem] = @ + 1]
    /\ hReq' = [hReq EXCEPT ![r] = Serving(@.sem)]
    /\ UNCHANGED <<hSem, hCap, hMade, hMax, hServed, wrVars>>
    /\ UNCHANGED <<srvVars, parserVars, batchVars, queueVars, txVars,
                   scaleVars, fsVars>>

\* ServeHTTP: the wrapped handler returns, and <-sem.
HLeave(r) ==
    /\ hReq[r].pc = "in"
    /\ hTokens' = IF hReq[r].sem = Nil THEN hTokens
                  ELSE [hTokens EXCEPT ![hReq[r].sem] = @ - 1]
    /\ hReq' = [hReq EXCEPT ![r] = Outside]
    /\ hServed' = hServed + 1
    /\ UNCHANGED <<hSem, hCap, hMade, hMax, wrVars>>
    /\ UNCHANGED <<srvVars, parserVars, batchVars, queueVars, txVars,
                   scaleVars, fsVars>>

(***************************************************************************)
(* Specifications                                                          *)
(***************************************************************************)
\* New(c, done): the pool is made, Reload(&c) stores the configuration.
SrvInit(cfg, w, live) ==
    /\ config = cfg
    /\ mode = ModeOf(cfg)
    /\ poolGen = 0
    /\ requestChan = [g \in Gens |-> <<>>]
    /\ chanClosed = [g \in Gens |-> FALSE]
    /\ pc = [c \in Conns |-> IF c \in live THEN "idle" ELSE "closed"]
    /\ inbuf = [c \in Conns |-> <<>>]
    /\ database = [c \in Conns |-> 0]
    /\ req = [c \in Conns |-> NoReq]
    /\ client = [c \in Conns |-> 0]
    /\ leased = [c \in Conns |-> FALSE]
    /\ responseCh = [c \in Conns |-> <<>>]
    /\ respClosed = [c \in Conns |-> c \notin live]
    /\ netClosed = [c \in Conns |-> c \notin live]
    /\ written = [c \in Conns |-> <<>>]
    /\ parsed = [c \in Conns |-> <<>>]
    /\ reloads = 0
    /\ metFull = {}
    /\ workload = w

ParserIdle == pIn = NoInput /\ pCmd = FALSE /\ pOut = NoResult

\* New of a batching backend of the given kind: nothing accepted yet.
BatchInitOf(kind, sync) ==
    /\ bKind = kind
    /\ bSync = sync
    /\ exiting = FALSE
    /\ listening = (kind # "none")
    /\ C = <<>>
    /\ closedC = FALSE
    /\ hpc = [c \in Conns |-> IF kind = "none" THEN "eof" ELSE "idle"]
    /\ hreq = [c \in Conns |-> NoBReq]
    /\ hlog = [c \in Conns |-> <<>>]
    /\ crashed = "no"
    /\ exitPc = IF kind = "none" THEN "done" ELSE "idle"
    /\ workerUp = (kind # "none")
    /\ held = 0
    /\ stored = 0
    /\ doneCount = 0
    /\ lostAtDone = 0

BatchIdle == BatchInitOf("none", FALSE)

\* NewClient of the queue backend with the given MaxRecords.
QueueInitOf(max, up) ==
    /\ qMax = max
    /\ recordsCh = <<>>
    /\ syncRecordCh = <<>>
    /\ batch = <<>>
    /\ acks = [i \in Submitters |-> <<>>]
    /\ taken = {}
    /\ flushes = {}
    /\ qSent = IF up THEN 0 ELSE MaxSubmits
    /\ qReloads = IF up THEN 0 ELSE MaxReloads
    /\ qPc = IF up THEN "listen" ELSE "stopped"
    /\ qExit = IF up THEN "no" ELSE "returned"
    /\ qTimer = IF up THEN "armed" ELSE "stopped"

QueueIdle == QueueInitOf(0, FALSE)

\* A connection of the queue server before its first command.
TxInitOf(up) ==
    /\ multi = FALSE
    /\ row = Nil
    /\ txLog = <<>>
    /\ nextRec = 1
    /\ txPc = IF up THEN "read" ELSE "closed"
    /\ txCh = <<>>
    /\ txBatch = <<>>
    /\ txHanded = <<>>
    /\ txCmds = 0

TxIdle == TxInitOf(FALSE)

\* New of the streaming backend with the given MaxWorkers.
ScaleInitOf(v, up) ==
    /\ kMaxWorkers = MaxWorkersOf(v)
    /\ mMax = MaxWorkersOf(v)
    /\ mPending = {}
    /\ cliDesired = 0
    /\ kLen = 0
    /\ kNow = IF up THEN 0 ELSE MaxTime
    /\ kChanges = <<>>
    /\ kReloads = IF up THEN 0 ELSE MaxReloads

ScaleIdle == ScaleInitOf(0, FALSE)

\* New of the filesystem backend: Reload of the first configuration.
FsInitOf(v, compress, sess, up) ==
    /\ fLoaded = <<v>>
    /\ fCfgShards = defaulted(v)
    /\ fShards = IF defaulted(v) > 0 THEN defaulted(v) ELSE 0
    /\ fCompress = compress
    /\ fSess = sess
    /\ fPool = [i \in MsgIds |-> NewMsg]
    /\ fCalls = {}
    /\ fGets = {}
    /\ fCrashed = ~up
    /\ fOps = 0

FsIdle == FsInitOf(0, FALSE, FALSE, FALSE)

\* New of a server that keeps its writers in a channel, before the Reload
\* that New calls.
WrInitOf(kind, up) ==
    /\ wKind = kind
    /\ wCfg = 0
    /\ wLen = 0
    /\ wPc = IF up THEN "idle" ELSE "off"
    /\ wI = 0
    /\ wTo = 0
    /\ wSpawned = 0
    /\ wStopped = 0
    /\ wReloads = 0

WrIdle == WrInitOf("stream", FALSE)

\* New of the HTTP proxy: newLimitHandler, then Reload with MaxConnections n.
HttpInitOf(n, up) ==
    /\ hSem = IF n > 0 THEN 1 ELSE Nil
    /\ hCap = [s \in Sems |-> IF s = 1 /\ n > 0 THEN n ELSE 0]
    /\ hTokens = [s \in Sems |-> 0]
    /\ hMade = IF n > 0 THEN 1 ELSE 0
    /\ hMax = n
    /\ hReq = [r \in Reqs |-> IF up THEN Outside ELSE [pc |-> "off", sem |-> Nil]]
    /\ hServed = 0

HttpIdle == HttpInitOf(0, FALSE)

MoreIdle == WrIdle /\ HttpIdle

ExtIdle == TxIdle /\ ScaleIdle /\ FsIdle /\ MoreIdle

Init ==
    /\ \E cfg \in Configs : cfg.Url = "a" /\ SrvInit(cfg, "core", Conns)
    /\ ParserIdle /\ BatchIdle /\ QueueIdle /\ ExtIdle

ConnStep(c) ==
    \/ Accept(c)
    \/ AcceptNoClient(c)
    \/ ReadRequest(c)
    \/ FastSend(c)
    \/ FastWrite(c)
    \/ SyncSend(c)
    \/ RecvResponse(c)
    \/ Timeout(c)

Next ==
    \/ \E c \in Conns : ConnStep(c)
    \/ \E g \in Gens : BackendServe(g)
    \/ \E cfg \in Configs : Reload(cfg)

Spec == Init /\ [][Next]_vars

\* One connection that sends a request of every command.
TableInit ==
    /\ \E cfg \in Configs : cfg.Url = "a" /\ SrvInit(cfg, "table", {1})
    /\ ParserIdle /\ BatchIdle /\ QueueIdle /\ ExtIdle

TableSpec == TableInit /\ [][Next]_vars

\* The server that New built from a configuration with or without a
\* backend URL: New makes the pool and calls Reload on the zero
\* configuration, whose Url is empty.
UrlConfigs == [Url : {"", "a"}, Mode : {"sync", "smart"}]

UrlInit ==
    /\ \E cfg \in UrlConfigs : SrvInit(cfg, "core", {1})
    /\ ParserIdle /\ BatchIdle /\ QueueIdle /\ ExtIdle

UrlSpec == UrlInit /\ [][Next]_vars

\* One connection that also sends an array header with a negative count.
EdgeInit ==
    /\ \E cfg \in Configs : cfg.Url = "a" /\ SrvInit(cfg, "edge", {1})
    /\ ParserIdle /\ BatchIdle /\ QueueIdle /\ ExtIdle

EdgeSpec == EdgeInit /\ [][Next]_vars

\* One connection that also sends requests the parser rejects.
ErrInit ==
    /\ \E cfg \in Configs : cfg.Url = "a" /\ SrvInit(cfg, "errors", {1})
    /\ ParserIdle /\ BatchIdle /\ QueueIdle /\ ExtIdle

ErrSpec == ErrInit /\ [][Next]_vars

\* Two connections that send SELECT and GET.
SelectInit ==
    /\ \E cfg \in Configs : cfg.Url = "a" /\ SrvInit(cfg, "select", Conns)
    /\ ParserIdle /\ BatchIdle /\ QueueIdle /\ ExtIdle

SelectSpec == SelectInit /\ [][Next]_vars

\* The parser on its own, on one valid frame followed by a tail.
ParserInit ==
    /\ SrvInit([Url |-> "a", Mode |-> "sync"], "core", {})
    /\ pIn \in ParserInputs
    /\ pCmd \in BOOLEAN
    /\ pOut = NoResult
    /\ BatchIdle /\ QueueIdle /\ ExtIdle

ParseFrame ==
    /\ pOut = NoResult
    /\ pOut' = ParserRead(pIn.frame \o pIn.tail, <<>>, <<>>, 0, pCmd)
    /\ UNCHANGED <<pIn, pCmd, srvVars, batchVars, queueVars, extVars>>

ParserNext == ParseFrame

ParserSpec == ParserInit /\ [][ParserNext]_vars

\* The parser on every byte sequence of up to MaxRaw bytes over RawBytes:
\* header lines of any length, with CRLF, with a bare LF, or cut short.
RawInit ==
    /\ SrvInit([Url |-> "a", Mode |-> "sync"], "core", {})
    /\ pIn \in {[frame |-> f, tail |-> <<>>] : f \in RawInputs}
    /\ pCmd \in BOOLEAN
    /\ pOut = NoResult
    /\ BatchIdle /\ QueueIdle /\ ExtIdle

RawSpec == RawInit /\ [][ParserNext]_vars

\* A batching backend of each kind, fs in both modes, with Exit.
BatchInit ==
    /\ SrvInit([Url |-> "a", Mode |-> "sync"], "core", {})
    /\ ParserIdle /\ QueueIdle /\ ExtIdle
    /\ \E kind \in Kinds : \E sync \in BOOLEAN :
          /\ sync => kind = "fs"
          /\ BatchInitOf(kind, sync)

BatchNext ==
    \/ \E c \in Conns : \/ HAccept(c)
                        \/ HRead(c)
                        \/ HTrySend(c)
                        \/ HSendRecord(c)
    \/ WorkerTake
    \/ WorkerFlush
    \/ ExitMark
    \/ ExitCloseC
    \/ ExitDrained
    \/ ExitClients
    \/ ExitDone

BatchSpec == BatchInit /\ [][BatchNext]_vars

\* One worker of the queue backend, started with each MaxRecords.
QueueInit ==
    /\ SrvInit([Url |-> "a", Mode |-> "sync"], "core", {})
    /\ ParserIdle /\ BatchIdle /\ ExtIdle
    /\ \E v \in ConfigMaxRecords : QueueInitOf(MaxRecordsOf(v), TRUE)

QueueNext ==
    \/ SubmitAsync
    \/ SubmitSync
    \/ ListenSync
    \/ ListenAsync
    \/ TimerFlush
    \/ QReload
    \/ ClientExit
    \/ ListenDone
    \/ ExitReturn

QueueSpec == QueueInit /\ [][QueueNext]_vars

\* The worker under one configuration (the default MaxRecords or 2), with
\* fairness: it goes on while a case of its select is ready, and its timer
\* expires.
FlushInit ==
    /\ SrvInit([Url |-> "a", Mode |-> "sync"], "core", {})
    /\ ParserIdle /\ BatchIdle /\ ExtIdle
    /\ \E v \in {0, 2} : QueueInitOf(MaxRecordsOf(v), TRUE)

FlushNext ==
    \/ SubmitAsync
    \/ SubmitSync
    \/ ListenSync
    \/ ListenAsync
    \/ TimerFlush
    \/ ClientExit
    \/ ListenDone
    \/ ExitReturn

FlushSpec ==
    /\ FlushInit /\ [][FlushNext]_vars
    /\ WF_vars(ListenSync)
    /\ WF_vars(ListenAsync)
    /\ WF_vars(TimerFlush)
    /\ WF_vars(ListenDone)

\* One connection of the queue server and the client behind it.
TxInit ==
    /\ SrvInit([Url |-> "a", Mode |-> "sync"], "core", {})
    /\ ParserIdle /\ BatchIdle
    /\ \E v \in {0, 2} : QueueInitOf(MaxRecordsOf(v), FALSE)
    /\ TxInitOf(TRUE)
    /\ ScaleIdle /\ FsIdle /\ MoreIdle

TxNext ==
    \/ TxCommand
    \/ TxSend
    \/ TxListen
    \/ TxTimer

TxSpec == TxInit /\ [][TxNext]_vars

\* The fanout of a streaming backend under load and Reload.
ScaleInit ==
    /\ SrvInit([Url |-> "a", Mode |-> "sync"], "core", {})
    /\ ParserIdle /\ BatchIdle /\ QueueIdle /\ TxIdle
    /\ \E v \in ConfigMaxWorkers : ScaleInitOf(v, TRUE)
    /\ FsIdle /\ MoreIdle

ScaleNext ==
    \/ KTick
    \/ KPut
    \/ KTake
    \/ KReload
    \/ KMonadReload

ScaleSpec == ScaleInit /\ [][ScaleNext]_vars

\* A server and the channel of its writers under Reload.
WrInit ==
    /\ SrvInit([Url |-> "a", Mode |-> "sync"], "core", {})
    /\ ParserIdle /\ BatchIdle /\ QueueIdle /\ TxIdle /\ ScaleIdle /\ FsIdle
    /\ HttpIdle
    /\ \E kind \in WriterKinds : WrInitOf(kind, TRUE)

WrNext ==
    \/ WReload
    \/ WSpawn
    \/ WSpawnBlocked
    \/ WStop

WrSpec == WrInit /\ [][WrNext]_vars

\* The limiter of the HTTP proxy under requests and Reload.
HttpInit ==
    /\ SrvInit([Url |-> "a", Mode |-> "sync"], "core", {})
    /\ ParserIdle /\ BatchIdle /\ QueueIdle /\ TxIdle /\ ScaleIdle /\ FsIdle
    /\ WrIdle
    /\ \E n \in ConfigMaxConns : HttpInitOf(n, TRUE)

HttpNext ==
    \/ HMaxConns
    \/ \E r \in Reqs : \/ HEnter(r)
                        \/ HAcquire(r)
                        \/ HLeave(r)

HttpSpec == HttpInit /\ [][HttpNext]_vars

\* The filesystem backend handing out messages and deriving their paths.
FsInit ==
    /\ SrvInit([Url |-> "a", Mode |-> "sync"], "core", {})
    /\ ParserIdle /\ BatchIdle /\ QueueIdle /\ TxIdle /\ ScaleIdle
    /\ MoreIdle
    /\ \E v \in ConfigShards, compress \in BOOLEAN, sess \in BOOLEAN :
          FsInitOf(v, compress, sess, TRUE)

FsNext ==
    \/ FsReload
    \/ \E i \in MsgIds : FsNewMsg(i)
    \/ \E i \in MsgIds : FsCall(i)
    \/ \E i \in MsgIds : FsPutMsg(i)

FsSpec == FsInit /\ [][FsNext]_vars

\* The filesystem backend serving GET requests.
GetNext ==
    \/ FsReload
    \/ \E i \in MsgIds : FsGet(i)

GetSpec == FsInit /\ [][GetNext]_vars

\* The timer of time.After(responseTimeout) fires while the loop still waits.
FairSpec == Spec /\ \A c \in Conns : WF_vars(Timeout(c))

(***************************************************************************)
(* Properties                                                              *)
(***************************************************************************)
Last(seq) == seq[Len(seq)]

\* The requests standing in some intake channel.
Queued == UNION {{requestChan[g][i] : i \in 1..Len(requestChan[g])} : g \in Gens}

\* Was the request parsed in smart mode with a command of the table?
FastAcked(p) == p.mode = modeSmart /\ p.command \in DOMAIN commands

\* w is a reply to the parsed request p: the canned reply of its command, the
\* +OK of QUIT, the backend's response to this very request, or the generic
\* error the loop writes when the send fails or the response times out.
ReplyTo(p, w) ==
    IF FastAcked(p) THEN w = Local(commands[p.command])
    ELSE IF p.command = quitCommand THEN w = Local(protoOK)
    ELSE w = [from |-> "backend", responseTo |-> p.id] \/ w = Local(protoKO)

\* C1: on every connection, in both modes, the i-th reply written is the
\* reply to the i-th parsed request: every parsed request but the one in
\* progress has its reply, a fast-ack reply is the canned reply of that
\* request's command, and a backend response is written only as the answer
\* to the request it responds to.
C1_ReplyOrder ==
    \A c \in Conns :
        /\ Len(written[c]) <= Len(parsed[c])
        /\ Len(written[c]) >= Len(parsed[c]) - 1
        /\ \A i \in 1..Len(written[c]) : ReplyTo(parsed[c][i], written[c][i])

\* C1 witness: a connection whose second reply is the backend's response,
\* after a first request answered from the table.
C1_Witness ==
    \E c \in Conns :
        /\ Len(written[c]) = 2
        /\ FastAcked(parsed[c][1])
        /\ written[c][2] = [from |-> "backend", responseTo |-> <<c, 2>>]

\* C2: in smart mode the canned reply of a fast-ack request is written
\* before the request is handed to the intake channel: a request standing in
\* the intake channel without response channel has its reply written.
C2_ReplyBeforeForward ==
    \A r \in Queued :
        r.responseChannel = Nil =>
            /\ Len(written[r.id[1]]) >= r.id[2]
            /\ written[r.id[1]][r.id[2]] = Local(commands[r.command])

\* The reply the fast-ack table of the specification gives a command.
TableReply(command) ==
    IF command = cPING THEN protoPong
    ELSE IF command \in {cSET, cSETEX, cPSETEX, cMSET, cHMSET, selectCommand}
    THEN protoOK
    ELSE IF command \in {cDEL, cHSET, cHDEL, cEXPIRE, cEXPIREAT, cPEXPIRE,
                         cPEXPIREAT}
    THEN protoTrue
    ELSE <<>>

\* The request of the parsed entry p, while the loop still handles it or
\* while it stands in an intake channel.
RequestsOf(c, i) ==
    {r \in Queued \cup {req[c]} : r.id = <<c, i>>}

\* C3 (as stated): the reply depends only on the command: in smart mode a
\* command of the table gets its canned reply; every other command, and
\* every command in sync mode, carries the response channel and the reply
\* the client receives is the backend's response.
C3_ReplyByCommand ==
    \A c \in Conns : \A i \in 1..Len(parsed[c]) :
        LET p == parsed[c][i] IN
        IF p.mode = modeSmart /\ TableReply(p.command) # <<>>
        THEN /\ \A r \in RequestsOf(c, i) : r.responseChannel = Nil
             /\ i <= Len(written[c]) =>
                    written[c][i] = Local(TableReply(p.command))
        ELSE /\ \A r \in RequestsOf(c, i) : r.responseChannel = c
             /\ i <= Len(written[c]) =>
                    written[c][i] = [from |-> "backend", responseTo |-> p.id]

\* C3 (amended): as C3, but QUIT is answered +OK by the loop itself in both
\* modes and is not sent, and a request that needs the backend is answered
\* with the generic error when the send fails or the response times out.
C3_ReplyByCommandAmended ==
    \A c \in Conns : \A i \in 1..Len(parsed[c]) :
        LET p == parsed[c][i] IN
        IF p.command = quitCommand
        THEN /\ RequestsOf(c, i) = {}
             /\ i <= Len(written[c]) /\ written[c][i] = Local(protoOK)
        ELSE IF p.mode = modeSmart /\ TableReply(p.command) # <<>>
        THEN /\ \A r \in RequestsOf(c, i) : r.responseChannel = Nil
             /\ i <= Len(written[c]) =>
                    written[c][i] = Local(TableReply(p.command))
        ELSE /\ \A r \in RequestsOf(c, i) : r.responseChannel = c
             /\ i <= Len(written[c]) =>
                    written[c][i] \in {[from |-> "backend", responseTo |-> p.id],
                                       Local(protoKO)}

\* C3 witness: in smart mode one connection got :1 for an inline HDEL and
\* then the backend's response for INCR.
C3_Witness ==
    /\ Len(written[1]) = 2
    /\ parsed[1][1].mode = modeSmart /\ parsed[1][2].mode = modeSmart
    /\ parsed[1][1].command = cHDEL /\ parsed[1][1].form = "inline"
    /\ written[1][1] = Local(protoTrue)
    /\ parsed[1][2].command = cINCR
    /\ written[1][2] = [from |-> "backend", responseTo |-> <<1, 2>>]

\* Blocked(c): the loop of c stands in "c <- r" on an open, full channel.
Blocked(c) ==
    /\ pc[c] \in {"fastSend", "syncSend"}
    /\ ~chanClosed[client[c]]
    /\ ~HasRoom(client[c])

\* C4: in smart mode the loop forwards a fast-ack request without waiting:
\* it is never blocked on a full intake channel.
C4_FastSendNeverBlocks ==
    \A c \in Conns : pc[c] = "fastSend" => ~Blocked(c)

\* C5: a fast-ack request that met a full intake channel is not queued, and
\* its connection is closed: it handles no further request.
C5_FullClosesConnection ==
    \A c \in metFull :
        /\ pc[c] \in {"fastSend", "closed"}
        /\ \A r \in Queued : r.id # req[c].id

\* C6: after a request was sent with the response channel the loop does not
\* wait forever; it leaves the wait either by writing the backend's response
\* or, on timeout, by writing the generic error and closing the connection;
\* and a connection that has returned never reads or writes again.
C6_BoundedWait ==
    /\ \A c \in Conns : (pc[c] = "wait") ~> (pc[c] # "wait")
    /\ [][\A c \in Conns :
            /\ (pc[c] = "wait" /\ pc'[c] # "wait") =>
                  \/ /\ pc'[c] = "read"
                     /\ written'[c] = Append(written[c],
                            [from |-> "backend", responseTo |-> req[c].id])
                  \/ /\ pc'[c] = "closed"
                     /\ netClosed'[c] /\ respClosed'[c]
                     /\ written'[c] = Append(written[c], Local(protoKO))
            /\ pc[c] = "closed" =>
                  /\ pc'[c] = "closed"
                  /\ written'[c] = written[c]
                  /\ responseCh'[c] = <<>>]_vars

\* C6 witness: a connection closed by the timeout, with the generic error
\* as its last reply, while its intake channel is still open.
C6_Witness ==
    \E c \in Conns :
        /\ pc[c] = "closed"
        /\ ~chanClosed[client[c]]
        /\ written[c] # <<>>
        /\ Last(written[c]) = Local(protoKO)

\* C7: a QUIT request, in either mode, is the last request of its
\* connection: +OK is written for it, the connection is closed, the pooled
\* client is released, and no QUIT request reaches an intake channel.
C7_Quit ==
    /\ \A r \in Queued : r.command # quitCommand
    /\ \A c \in Conns : \A i \in 1..Len(parsed[c]) :
          parsed[c][i].command = quitCommand =>
              /\ i = Len(parsed[c])
              /\ Len(written[c]) = i
              /\ written[c][i] = Local(protoOK)
              /\ pc[c] = "closed"
              /\ netClosed[c]
              /\ ~leased[c]
              /\ req[c].id # <<c, i>>

\* C7 witness: QUIT as the second request of a connection, in smart mode.
C7_Witness ==
    \E c \in Conns :
        /\ Len(parsed[c]) = 2
        /\ parsed[c][2].command = quitCommand
        /\ parsed[c][2].mode = modeSmart
        /\ parsed[c][1].command = cSET

\* The index selected by the last SELECT among the first i requests of a
\* connection, 0 when there is none.
RECURSIVE Selected(_, _)
Selected(log, i) ==
    IF i = 0 THEN 0
    ELSE IF log[i].sel # -1 THEN log[i].sel
    ELSE Selected(log, i - 1)

\* C8: every request of a connection, the SELECT itself included, carries
\* the database index of the last SELECT parsed on that connection, in the
\* log and in the request that is forwarded.
C8_DbAffinity ==
    \A c \in Conns : \A i \in 1..Len(parsed[c]) :
        /\ parsed[c][i].database = Selected(parsed[c], i)
        /\ \A r \in RequestsOf(c, i) : r.database = Selected(parsed[c], i)

\* C9: after a SELECT n request, in multibulk or in inline form, the
\* database index of the connection is n.
C9_SelectBothForms ==
    \A c \in Conns :
        (parsed[c] # <<>> /\ Last(parsed[c]).sel # -1) =>
            database[c] = Last(parsed[c]).sel

\* C10: for a valid frame F fed to the parser on an empty request, the raw
\* buffer equals F and the reader has consumed exactly F.
C10_RoundTrip ==
    pOut # NoResult =>
        /\ pOut.st = "ok"
        /\ pOut.buffer = pIn.frame
        /\ pOut.rest = pIn.tail

Entries == {<<c, i>> : c \in Conns, i \in 1..MaxReqs} \cap
           UNION {{<<c, i>> : i \in 1..Len(hlog[c])} : c \in Conns}

EntryAt(m) == hlog[m[1]][m[2]]

\* The messages standing in the intake channel.
InC == {C[i] : i \in 1..Len(C)}

\* A well-formed write request.
IsWrite(r) == r.cmd = WriteCmd(bKind) /\ SetArityOK(bKind, r.items)

\* C12: in fs (non-sync mode) and stream, a write whose handler finds the
\* intake channel full is answered with the channel-full error and is not
\* enqueued, and the handler goes on reading the connection.
C12_ChanFullReply ==
    bKind \in {"fs", "stream"} =>
        \A m \in Entries :
            EntryAt(m).full =>
                /\ EntryAt(m).reply = respChanFull
                /\ ~EntryAt(m).enq
                /\ m \notin InC

\* HBlocked(c): the handler of c stands in a send on the intake channel that
\* cannot proceed.
HBlocked(c) ==
    /\ hpc[c] = "send"
    /\ bKind = "sqs"
    /\ Len(C) >= BufCap

\* C13: in every batching backend a write that meets an intake channel at
\* capacity is admitted or refused at once: no handler ever waits on the
\* intake channel.
C13_HandlerNeverBlocks ==
    \A c \in Conns : ~HBlocked(c)

ClosingReply == IF bKind = "sqs" THEN respKO ELSE respClosing

\* C15: a write request received after Exit has marked the server as
\* exiting is answered with the closing error and is not enqueued (stated
\* here for the servers that hand their writes to the intake channel).
C15_ClosingReply ==
    \A m \in Entries :
        (EntryAt(m).exiting /\ IsWrite(EntryAt(m).req) /\ ~bSync) =>
            /\ EntryAt(m).reply \in {ClosingReply, Pending}
            /\ ~EntryAt(m).enq
            /\ m \notin InC

\* C16: done is signalled at most once, and when it is signalled the intake
\* channel is empty and no worker holds a message it has not sent.
C16_GracefulDrain ==
    /\ doneCount <= 1
    /\ lostAtDone = 0

\* C17: no handler sends on an intake channel that Exit has closed.
C17_NoSendOnClosed ==
    crashed # "send on closed channel"

\* C18: when the handler of one connection fails on a GET whose error is of
\* an unexpected type, the handlers of the other connections keep running.
C18_FailureContained ==
    \A c \in Conns :
        (hlog[c] # <<>> /\ Last(hlog[c]).req.err = "NumError") =>
            \A d \in Conns \ {c} : hpc[d] \in {"read", "send"} => Alive

\* C19: every batch handed to the transport has at most MaxRecords entries,
\* MaxRecords being the value in force at the flush, and every entry is at
\* most maxRecordSize bytes long.
C19_BatchBounds ==
    \A f \in flushes : f.n <= f.max /\ f.largest <= maxRecordSize

\* C20: every payload the worker has taken from syncRecordCh has been
\* acknowledged exactly once.
C20_SyncAck ==
    \A i \in taken : Len(acks[i]) = 1

\* C21: when Client.Exit has returned, the worker's batch is empty and the
\* worker has stopped; from then on it takes nothing from recordsCh or
\* syncRecordCh and hands nothing more to the transport.
C21_StopFlushes ==
    [][qExit = "returned" =>
          /\ batch = <<>> /\ batch' = <<>>
          /\ qPc = "stopped" /\ qPc' = "stopped"
          /\ Len(recordsCh') >= Len(recordsCh)
          /\ Len(syncRecordCh') >= Len(syncRecordCh)
          /\ flushes' = flushes]_vars

\* Exit has returned after the worker flushed a batch that was not empty,
\* and a record submitted afterwards stays in the channel.
C21_Witness ==
    /\ qExit = "returned"
    /\ flushes # {}
    /\ batch = <<>>
    /\ recordsCh # <<>>

\* The batches handed to the transport that hold the record r.
BatchesWith(r) ==
    {i \in 1..Len(txHanded) :
        \E j \in 1..Len(txHanded[i].entries) : txHanded[i].entries[j] = r}

\* C22: every record is in at most one of the batches handed to the
\* transport, whether the transport call succeeded or failed.
C22_AtMostOnce ==
    \A r \in Recs : Cardinality(BatchesWith(r)) <= 1

\* C23: once the controller has evaluated, cliDesired is within
\* [1, MaxWorkers], and two changes of it are at least CoolDownPeriod apart.
C23_DesiredBounds ==
    /\ cliDesired # 0 => (1 <= cliDesired /\ cliDesired <= kMaxWorkers)
    /\ \A i \in 2..Len(kChanges) :
           kChanges[i] - kChanges[i - 1] >= CoolDownTicks

\* C24: for a fixed shard count S > 0 (no Reload since getMsg handed the
\* message out) getShard returns CRC32(key) mod S, path and fullpath carry
\* that shard in two hexadecimal digits, and two calls of path (or of
\* fullpath) on messages with the same project, key and minute return the
\* same path, whatever was called on the messages before.
InForce(e) == e.fixed /\ e.S > 0

ShardOf(e) == Mod32(keySum[e.k], e.S)

C24_ShardDeterministic ==
    /\ \A e \in fCalls :
          InForce(e) =>
             IF e.op = "getShard" THEN e.shard = ShardOf(e)
             ELSE e.path[1].shard = Hex02(ShardOf(e))
    /\ \A e1, e2 \in fCalls :
          (/\ InForce(e1) /\ InForce(e2)
           /\ e1.op = e2.op /\ e1.op # "getShard"
           /\ e1.S = e2.S /\ e1.project = e2.project /\ e1.k = e2.k
           /\ e1.minute = e2.minute)
          => e1.path = e2.path

C24_Witness ==
    \E e1, e2, e3 \in fCalls :
       /\ InForce(e1) /\ InForce(e2) /\ InForce(e3)
       /\ e1.S = defaultShards /\ e2.S = e1.S /\ e3.S = e1.S
       /\ e1.op = "getShard" /\ e2.op = "fullpath" /\ e3.op = "getShard"
       /\ e1.k = e2.k /\ e3.k # e1.k
       /\ e2.path[1].shard = Hex02(e1.shard)
       /\ e3.shard # e1.shard

Rank(l) ==
    (IF l.at = "sharded" THEN 0 ELSE IF l.at = "unsharded" THEN 2 ELSE 4)
    + (IF l.gz THEN 0 ELSE 1)

Applies(g, n) ==
    CASE n = 0 -> g.compress /\ g.S > 0
      [] n = 1 -> g.S > 0
      [] n = 2 -> g.compress
      [] n = 3 -> TRUE
      [] n = 5 -> g.sess
      [] OTHER -> FALSE

Hit(l) == l.err \in {"nil", "EOF"}

C27_EmptyGzip ==
    \A g \in fGets :
       (g.compress /\ g.looks[1].gz /\ g.looks[1].err = "EOF") =>
          Len(g.looks) = 1 /\ g.reply = "empty"

\* C28 as claimed: a Reload replaces the pool (the old one reset, a new one
\* in its place) exactly when the URL of the new configuration differs from
\* the one in use.
ReloadStep == reloads' # reloads

C28_UrlDiffers ==
    [][ReloadStep =>
          ((poolGen' # poolGen) <=> (config'.Url # config.Url))]_vars

\* C28 amended: a Reload replaces the pool exactly when the URL in use is
\* not empty and differs from the new one; otherwise the pool object and
\* its channel are kept; in both cases the configuration stored is a
\* snapshot whose Mode decides the mode.
C28_UrlInUseDiffers ==
    [][ReloadStep =>
          /\ (poolGen' # poolGen) <=>
                (config.Url # "" /\ config'.Url # config.Url)
          /\ poolGen' # poolGen =>
                /\ poolGen' = poolGen + 1
                /\ chanClosed'[poolGen]
                /\ ~chanClosed'[poolGen']
          /\ poolGen' = poolGen => chanClosed' = chanClosed
          /\ config' \in Configs
          /\ (mode' = modeSmart) <=> (config'.Mode = "smart")
          /\ mode' \in {modeSmart, modeSync}]_vars

C28_Witness ==
    /\ reloads = 1
    /\ poolGen = 1
    /\ chanClosed[0]
    /\ config.Url = "b"
    /\ mode = modeSmart

\* C29: an array header *N with N < 0 makes the parser fail, so the loop
\* returns and no request stands in an intake channel for that frame.
C29_NegativeArrayFails ==
    \A g \in Gens :
       \A j \in 1..Len(requestChan[g]) :
          LET id == requestChan[g][j].id IN
          parsed[id[1]][id[2]].form # "negarray"

\* The bytes $0 CRLF CRLF occur in s.
EmptyBulkIn(s) ==
    \E i \in 1..Len(s) :
       /\ i + Len(BulkOf(<<>>)) - 1 <= Len(s)
       /\ SubSeq(s, i, i + Len(BulkOf(<<>>)) - 1) = BulkOf(<<>>)

\* C30: a frame with a zero-length bulk string, alone or as an element of a
\* multibulk request, is parsed without error and the reader stands at the
\* first byte of what follows the frame.
C30_EmptyBulkConsumed ==
    (pOut # NoResult /\ EmptyBulkIn(pIn.frame)) =>
        pOut.st = "ok" /\ pOut.rest = pIn.tail

\* The bytes $-1 CRLF occur in s.
NullBulkIn(s) ==
    \E i \in 1..Len(s) :
       /\ i + Len(NullBulk) - 1 <= Len(s)
       /\ SubSeq(s, i, i + Len(NullBulk) - 1) = NullBulk

\* C31: a frame with a bulk header of negative length, alone or as an
\* element of a multibulk (and with no zero-length bulk in it), is parsed
\* without error, raw holds the frame with the header line verbatim, and no
\* byte after the frame has been read.
C31_NullBulk ==
    (pOut # NoResult /\ NullBulkIn(pIn.frame) /\ ~EmptyBulkIn(pIn.frame)) =>
        /\ pOut.st = "ok"
        /\ pOut.buffer = pIn.frame
        /\ pOut.rest = pIn.tail

C31_Witness ==
    /\ pOut # NoResult
    /\ pIn.frame = ArrayOf(<<NullBulk, BulkOf(<<"k">>)>>)
    /\ pIn.tail # <<>>
    /\ pOut.st = "ok"
    /\ pOut.buffer = pIn.frame
    /\ pOut.rest = pIn.tail

\* A step in which the read of connection c returned an error: the loop
\* left the read with nothing parsed and nothing written.
ReadFailed(c) ==
    /\ pc[c] = "read"
    /\ pc'[c] = "closed"
    /\ parsed'[c] = parsed[c]
    /\ written'[c] = written[c]

\* C32: when the parser returns an error the dispatch loop closes the
\* connection and its reply channel, gives its pooled client back, and puts
\* nothing into an intake channel.
C32_ParseErrorCloses ==
    [][\A c \in Conns :
          ReadFailed(c) =>
             /\ netClosed'[c]
             /\ respClosed'[c]
             /\ ~leased'[c]
             /\ requestChan' = requestChan
             /\ req' = req]_vars

\* C32 witness: a connection closed by a failed read after one GET was
\* forwarded and answered (no QUIT, no reply of the relayer's own).
C32_Witness ==
    /\ pc[1] = "closed"
    /\ netClosed[1]
    /\ ~leased[1]
    /\ Len(parsed[1]) = 1
    /\ parsed[1][1].command = cGET
    /\ Len(written[1]) = 1
    /\ written[1][1].from # "relayer"
    /\ \A g \in Gens : requestChan[g] = <<>>

\* C33: under fairness of the worker and of its timer, a batch that holds
\* records is eventually handed to the transport and reset.
C33_EventuallyFlushed == (batch # <<>>) ~> (batch = <<>> /\ flushes # {})

\* C33 witness: a batch smaller than the size trigger was handed over while
\* no sync submission had been taken and no stop was asked for: the timer
\* flushed it.
C33_Witness ==
    /\ qPc = "listen" /\ qExit = "no" /\ qReloads = 0
    /\ taken = {}
    /\ batch = <<>>
    /\ qTimer = "armed"
    /\ \E f \in flushes : f.n + 1 < f.max

\* C34 as claimed: the warm predicate is true exactly when the occupancy
\* len(C)/cap(C) is over the threshold of 0.6, for every length of C.
C34_WarmExactly == WarmFn <=> (kLen * 10 > KCap * 6)

\* C34 amended: the warm predicate is true exactly when no desired count
\* has been set yet (cliDesired is 0) or the occupancy is over the
\* threshold; with a desired count set it is false at the threshold and on
\* an empty channel.
C34_WarmOrUnset ==
    /\ kLen \in 0..KCap
    /\ WarmFn <=> (cliDesired = 0 \/ kLen * 100 > 60 * KCap)
    /\ (cliDesired # 0 /\ kLen * 100 = 60 * KCap) => ~WarmFn
    /\ (cliDesired # 0 /\ kLen = 0) => ~WarmFn

\* C34 witness: a desired count is set and the channel stands exactly at
\* the threshold.
C34_Witness ==
    /\ cliDesired > 0
    /\ kLen * 100 = 60 * KCap
    /\ ~WarmFn

\* C36: the shard count in force is that of the configuration loaded last:
\* a negative count leaves srv.shards at 0 and the paths of messages taken
\* since then without a shard component, whatever was loaded before.
C36_LastConfigInForce ==
    LET last == fLoaded[Len(fLoaded)] IN
    /\ last < 0 => fShards = 0
    /\ last > 0 => fShards = last
    /\ \A e \in fCalls :
          (e.fixed /\ e.raw < 0 /\ e.op # "getShard") =>
             e.path[1].shard = <<>>

\* C38: on every input the parser returns a request or an error; no slice
\* expression of it is out of range.
C38_NoIndexPanic == pOut # NoResult => pOut.st \in {"ok", "err"}

\* C37: every request a handler of the filesystem server has dealt with got
\* exactly one reply; a request without a reply is the one the handler is
\* still working on, or the one it was working on when the process ended.
C37_OneReply ==
    bKind = "fs" =>
       \A c \in Conns : \A i \in 1..Len(hlog[c]) :
          LET e == hlog[c][i] IN
          /\ e.n <= 1
          /\ e.n = 0 => /\ i = Len(hlog[c])
                        /\ hpc[c] = "send" \/ ~Alive

\* C35: Reload never stands in a send or a receive that cannot proceed, and
\* when it has returned the channel holds the configured number of writers,
\* which are the writers spawned and not yet told to stop.
C35_ReloadSettles ==
    /\ wPc # "blocked"
    /\ (wPc = "idle" /\ wReloads > 0) =>
           /\ wLen = wCfg
           /\ wLen = wSpawned - wStopped

\* The requests inside the wrapped handler.
Inside(f) == {r \in Reqs : f[r].pc = "in"}

\* C40: whenever a request enters the wrapped handler while a maximum is
\* configured, the requests inside the handler are at most that maximum
\* (taking only the moments at which every request inside has itself passed
\* a semaphore, so none of them entered while there was no limit).
C40_NeverOverLimit ==
    [][(/\ Inside(hReq) # Inside(hReq')
        /\ Inside(hReq) \subseteq Inside(hReq')
        /\ hMax > 0
        /\ \A r \in Inside(hReq') : hReq'[r].sem # Nil)
       => Cardinality(Inside(hReq')) <= hMax]_vars

\* C39: inside a transaction SET, SADD and HMSET are answered and send
\* nothing, and RAWSET is answered with the error and sends nothing; EXEC
\* sends the record of the transaction and ends it; outside a transaction
\* SET, SADD and HMSET each send one record that was not sent before.
C39_Transaction ==
    \A i \in 1..Len(txLog) :
       LET e == txLog[i] IN
       /\ (e.cmd \in {"SET", "SADD", "HMSET"} /\ e.multi) =>
              e.out = "ok" /\ e.send = <<>>
       /\ (e.cmd \in {"SET", "SADD", "HMSET"} /\ ~e.multi) =>
              /\ e.out = "ok"
              /\ Len(e.send) = 1
              /\ \A j \in 1..(i - 1) : txLog[j].send # e.send
       /\ (e.cmd = "EXEC" /\ e.multi) =>
              e.out = "ok" /\ e.send = <<e.row>> /\ ~e.after
       /\ (e.cmd = "RAWSET" /\ e.multi) =>
              e.out = "ko" /\ e.send = <<>>

====
